---- MODULE Spec2Model ----
(***************************************************************************)
(* papertree: the response sanitizer (parseAndSanitize) of                 *)
(* src/services/geminiService.ts, modelled on texts that are sequences of  *)
(* one-character strings, and on JavaScript values that are records; and   *)
(* the graph view (GraphView) of src/components/GraphView.tsx with its     *)
(* layout effect, its simulations and its drag handlers.                   *)
(***************************************************************************)
EXTENDS Integers, Sequences, FiniteSets

\* the sanitizer
VARIABLES text, payload, outcome, cleanText, parsed, data, error

\* the view: the graph and the query the App passes, the size the
\* ResizeObserver reported, whether the layout effect is due, the simulation
\* its registered cleanup stops (0: none), the simulation whose elements are
\* in the svg (0: none), every simulation created so far, and what the last
\* run of the effect computed
VARIABLES graphData, searchQuery, dimensions, pending, cleanup, rendered,
          sims, coreNodeId, fill, viewError

\* what the last run of the effect drew: the text of the label of each node
\* and of each link, the target forceX has for each node, and the d
\* attribute the last tick gave each link's path
VARIABLES nodeText, linkText, forceX, linkPath

\* the position fields the node objects of graphData hold, and whether the
\* endpoints of its link objects were replaced by objects
VARIABLES graphObjects

\* part_003 lines 72-83: the state of App (loading, history), the browser's
\* local storage, the analysis requests made (each the promise of line 218,
\* pending, fulfilled or rejected, with what the closure of a pending one
\* captured), the alerts shown, the user's latest action that
\* asks for a graph, the requests made so far, and whether the mount effect
\* of line 106 has run
VARIABLES loading, history, storage, requests, alerts, lastAction, clock,
          historyLoaded

sanitizerVars == <<text, payload, outcome, cleanText, parsed, data, error>>

drawnVars == <<nodeText, linkText, forceX, linkPath>>

viewVars ==
  <<graphData, searchQuery, dimensions, pending, cleanup, rendered, sims,
    coreNodeId, fill, viewError, drawnVars, graphObjects>>

appVars ==
  <<loading, history, storage, requests, alerts, lastAction, clock,
    historyLoaded>>

vars == <<sanitizerVars, viewVars, appVars>>

(***************************************************************************)
(* Characters.                                                             *)
(***************************************************************************)
Digits == {"0", "1", "2", "3", "4", "5", "6", "7", "8", "9"}

Letters ==
  {"a", "b", "c", "d", "e", "f", "g", "h", "i", "j", "k", "l", "m",
   "n", "o", "p", "q", "r", "s", "t", "u", "v", "w", "x", "y", "z",
   "A", "B", "C", "D", "E", "F", "G", "H", "I", "J", "K", "L", "M",
   "N", "O", "P", "Q", "R", "S", "T", "U", "V", "W", "X", "Y", "Z"}

\* [a-zA-Z0-9_] of the two key-quoting expressions
WordChars == Letters \cup Digits \cup {"_"}

\* \s of the regular expressions, and the characters trim() strips
WhiteSpace == {" ", "\n", "\t", "\r"}

DigitValue(c) ==
  CASE c = "0" -> 0 [] c = "1" -> 1 [] c = "2" -> 2 [] c = "3" -> 3
    [] c = "4" -> 4 [] c = "5" -> 5 [] c = "6" -> 6 [] c = "7" -> 7
    [] c = "8" -> 8 [] c = "9" -> 9

DigitChar(n) ==
  CASE n = 0 -> "0" [] n = 1 -> "1" [] n = 2 -> "2" [] n = 3 -> "3"
    [] n = 4 -> "4" [] n = 5 -> "5" [] n = 6 -> "6" [] n = 7 -> "7"
    [] n = 8 -> "8" [] n = 9 -> "9"

(***************************************************************************)
(* String helpers: positions are 1-based, 0 stands for JavaScript's -1.    *)
(***************************************************************************)
StartsWithAt(s, i, pat) ==
  /\ i >= 1
  /\ i + Len(pat) - 1 <= Len(s)
  /\ \A k \in 1..Len(pat) : s[i + k - 1] = pat[k]

\* the first position j >= i of s that is in the set at, Len(s)+1 if none
\* (i itself when i is beyond the end)
FirstFrom(s, i, at) ==
  IF i > Len(s) THEN i
  ELSE IF \E j \in i..Len(s) : j \in at
       THEN CHOOSE j \in i..Len(s) : j \in at /\ \A k \in i..(j - 1) : k \notin at
       ELSE Len(s) + 1

\* the last position j <= i of s that is in the set at, 0 if none
LastUpTo(s, i, at) ==
  IF \E j \in 1..i : j \in at
  THEN CHOOSE j \in 1..i : j \in at /\ \A k \in (j + 1)..i : k \notin at
  ELSE 0

\* the first position >= i that holds no white space
SkipWs(s, i) == FirstFrom(s, i, {p \in DOMAIN s : s[p] \notin WhiteSpace})

SkipWsBack(s, i) == LastUpTo(s, i, {p \in DOMAIN s : s[p] \notin WhiteSpace})

\* the first position >= i that holds no word character
SkipWord(s, i) == FirstFrom(s, i, {p \in DOMAIN s : s[p] \notin WordChars})

\* the first position >= i that holds no decimal digit
SkipDigits(s, i) == FirstFrom(s, i, {p \in DOMAIN s : s[p] \notin Digits})

\* String.prototype.trim
Trim(s) == SubSeq(s, SkipWs(s, 1), SkipWsBack(s, Len(s)))

\* String.prototype.indexOf of one character
IndexOf(s, c) ==
  LET j == FirstFrom(s, 1, {p \in DOMAIN s : s[p] = c})
  IN  IF j > Len(s) THEN 0 ELSE j

\* String.prototype.lastIndexOf of one character
LastIndexOf(s, c) == LastUpTo(s, Len(s), {p \in DOMAIN s : s[p] = c})

RECURSIVE RemoveAllFrom(_, _, _)
\* the matches are taken left to right and do not overlap
RemoveAllFrom(s, pat, i) ==
  LET m == FirstFrom(s, i, {p \in DOMAIN s : StartsWithAt(s, p, pat)})
  IN  IF m > Len(s) THEN SubSeq(s, i, Len(s))
      ELSE SubSeq(s, i, m - 1) \o RemoveAllFrom(s, pat, m + Len(pat))

\* s.replace(/pat/g, "") for a literal pattern
RemoveAll(s, pat) == RemoveAllFrom(s, pat, 1)

(***************************************************************************)
(* The repair steps of parseAndSanitize.                                   *)
(***************************************************************************)
\* the grave accent U+0060, which a TLA+ string cannot hold: one character
\* of the text, in none of the character classes
BackTick == "BACKTICK"

FenceJson == <<BackTick, BackTick, BackTick, "j", "s", "o", "n">>

Fence == <<BackTick, BackTick, BackTick>>

\* 1. Remove Markdown code blocks
StripFences(s) == RemoveAll(RemoveAll(s, FenceJson), Fence)

\* 2. Extract content between first { and last }; substring(a, b) swaps its
\* arguments when a > b
\* no extraction: the text is left as it is
KeepCommentary(s) == s

ExtractBraces(s) ==
  LET firstOpen == IndexOf(s, "{")
      lastClose == LastIndexOf(s, "}")
  IN  IF firstOpen # 0 /\ lastClose # 0
      THEN IF firstOpen <= lastClose
           THEN SubSeq(s, firstOpen, lastClose)
           ELSE SubSeq(s, lastClose + 1, firstOpen - 1)
      ELSE s

\* /,(\s*[}\]])/ matches at i
TrailingCommaAt(s, i) ==
  LET j == SkipWs(s, i + 1)
  IN  s[i] = "," /\ j <= Len(s) /\ s[j] \in {"}", "]"}

RECURSIVE TrailingCommasFrom(_, _)
TrailingCommasFrom(s, i) ==
  LET m == FirstFrom(s, i, {p \in DOMAIN s : TrailingCommaAt(s, p)})
      j == SkipWs(s, m + 1)
  IN  IF m > Len(s) THEN SubSeq(s, i, Len(s))
      ELSE SubSeq(s, i, m - 1) \o SubSeq(s, m + 1, j)
             \o TrailingCommasFrom(s, j + 1)

\* 3. replace(/,(\s*[}\]])/g, '$1')
\* no removal: the commas stay
KeepTrailingCommas(s) == s

RemoveTrailingCommas(s) == TrailingCommasFrom(s, 1)

\* /([{,]\s*)([a-zA-Z0-9_]+?)\s*:/ matches at i: the key is the whole run
\* of word characters, since only white space or the colon may follow it
BareKeyAt(s, i) ==
  LET j == SkipWs(s, i + 1)
      k == SkipWord(s, j)
      m == SkipWs(s, k)
  IN  s[i] \in {"{", ","} /\ k > j /\ m <= Len(s) /\ s[m] = ":"

RECURSIVE QuoteKeysFrom(_, _)
QuoteKeysFrom(s, i) ==
  LET at == FirstFrom(s, i, {p \in DOMAIN s : BareKeyAt(s, p)})
      j == SkipWs(s, at + 1)
      k == SkipWord(s, j)
      m == SkipWs(s, k)
  IN  IF at > Len(s) THEN SubSeq(s, i, Len(s))
      ELSE SubSeq(s, i, j - 1) \o <<"\"">> \o SubSeq(s, j, k - 1)
             \o <<"\"", ":">> \o QuoteKeysFrom(s, m + 1)

\* 4. replace(/([{,]\s*)([a-zA-Z0-9_]+?)\s*:/g, '$1"$2":')
\* no quoting: the keys stay bare
QuoteKeysSkipped(s) == s

QuoteKeys(s) == QuoteKeysFrom(s, 1)

\* /([{,]\s*)'([a-zA-Z0-9_]+?)'\s*:/ matches at i
SingleQuotedKeyAt(s, i) ==
  LET j == SkipWs(s, i + 1)
      k == SkipWord(s, j + 1)
      m == SkipWs(s, k + 1)
  IN  /\ s[i] \in {"{", ","}
      /\ j <= Len(s) /\ s[j] = "'"
      /\ k > j + 1
      /\ k <= Len(s) /\ s[k] = "'"
      /\ m <= Len(s) /\ s[m] = ":"

RECURSIVE SingleQuoteKeysFrom(_, _)
SingleQuoteKeysFrom(s, i) ==
  LET at == FirstFrom(s, i, {p \in DOMAIN s : SingleQuotedKeyAt(s, p)})
      j == SkipWs(s, at + 1)
      k == SkipWord(s, j + 1)
      m == SkipWs(s, k + 1)
  IN  IF at > Len(s) THEN SubSeq(s, i, Len(s))
      ELSE SubSeq(s, i, j - 1) \o <<"\"">> \o SubSeq(s, j + 1, k - 1)
             \o <<"\"", ":">> \o SingleQuoteKeysFrom(s, m + 1)

\* 5. replace(/([{,]\s*)'([a-zA-Z0-9_]+?)'\s*:/g, '$1"$2":')
SingleQuoteKeys(s) == SingleQuoteKeysFrom(s, 1)

\* lines 116-138: the text handed to JSON.parse
Clean(s) ==
  SingleQuoteKeys(QuoteKeys(RemoveTrailingCommas(
    ExtractBraces(StripFences(Trim(s))))))

(***************************************************************************)
(* JavaScript values.  Every value is a record of the same five fields so  *)
(* that any two values can be compared: t is the kind, n an integer (the   *)
(* value of a number, 1/0 of a boolean, the sign of a large number), s the *)
(* characters (of a string, or the decimal digits of a large number), a    *)
(* the elements of an array, o the own properties <<[k, v], ...>> of an    *)
(* object or array, in insertion order.                                    *)
(***************************************************************************)
Val(t, n, s, a, o) == [t |-> t, n |-> n, s |-> s, a |-> a, o |-> o]

Undefined == Val("undefined", 0, <<>>, <<>>, <<>>)

Null == Val("null", 0, <<>>, <<>>, <<>>)

Bool(b) == Val("boolean", IF b THEN 1 ELSE 0, <<>>, <<>>, <<>>)

\* a number that is an integer of fewer than ten digits
Num(n) == Val("number", n, <<>>, <<>>, <<>>)

\* a finite, integer-valued number of ten digits or more: its sign and digits
BigNum(sign, digits) == Val("bignumber", sign, digits, <<>>, <<>>)

Infinity(sign) == Val("infinity", sign, <<>>, <<>>, <<>>)

NaN == Val("nan", 0, <<>>, <<>>, <<>>)

Str(s) == Val("string", 0, s, <<>>, <<>>)

Arr(a) == Val("array", 0, <<>>, a, <<>>)

Obj(o) == Val("object", 0, <<>>, <<>>, o)

Prop(k, v) == [k |-> k, v |-> v]

NumberKinds == {"number", "bignumber", "infinity", "nan"}

\* typeof v === 'string'
IsString(v) == v.t = "string"

\* Array.isArray(v)
IsArray(v) == v.t = "array"

\* values that carry properties: reading a property of null or undefined
\* throws, and so does, in module (strict) code, writing one to a primitive
IsObjectLike(v) == v.t \in {"object", "array"}

\* Number.isFinite(v) && Number.isInteger(v)
IsFiniteInteger(v) == v.t \in {"number", "bignumber"}

RECURSIVE GetFrom(_, _, _)
GetFrom(o, k, i) ==
  IF i > Len(o) THEN Undefined
  ELSE IF o[i].k = k THEN o[i].v ELSE GetFrom(o, k, i + 1)

\* v.k for an own property k of an object or array (undefined if absent)
Get(v, k) == GetFrom(v.o, k, 1)

HasProp(v, k) == \E i \in 1..Len(v.o) : v.o[i].k = k

\* v.k = x: an existing property keeps its place, a new one is appended
Put(v, k, x) ==
  [v EXCEPT !.o =
     IF HasProp(v, k)
     THEN [i \in 1..Len(v.o) |-> IF v.o[i].k = k THEN Prop(k, x) ELSE v.o[i]]
     ELSE Append(v.o, Prop(k, x))]

(***************************************************************************)
(* Numbers and their decimal forms.                                        *)
(***************************************************************************)
RECURSIVE DecimalOfNat(_)
DecimalOfNat(n) ==
  IF n < 10 THEN <<DigitChar(n)>>
  ELSE DecimalOfNat(n \div 10) \o <<DigitChar(n % 10)>>

Decimal(n) == IF n < 0 THEN <<"-">> \o DecimalOfNat(-n) ELSE DecimalOfNat(n)

RECURSIVE NatOfDigits(_, _, _)
NatOfDigits(ds, i, acc) ==
  IF i > Len(ds) THEN acc
  ELSE NatOfDigits(ds, i + 1, acc * 10 + DigitValue(ds[i]))

\* the position of the first significant digit of ds (its last digit when
\* all are zero)
SkipZeros(ds, i) ==
  LET j == FirstFrom(ds, i, {p \in DOMAIN ds : ds[p] # "0"})
  IN  IF j > Len(ds) THEN Len(ds) ELSE j

RECURSIVE SeqLess(_, _, _)
\* the digits a, from position i on, come before those of b
SeqLess(a, b, i) ==
  IF i > Len(a) \/ i > Len(b) THEN FALSE
  ELSE IF a[i] # b[i] THEN DigitValue(a[i]) < DigitValue(b[i])
  ELSE SeqLess(a, b, i + 1)

\* Number.MAX_VALUE is 1.7976931348623157e308, 309 digits: a larger integer
\* rounds to Infinity
MaxValueDigits == 309

MaxValuePrefix ==
  <<"1", "7", "9", "7", "6", "9", "3", "1", "3", "4", "8", "6", "2", "3",
    "1", "5", "8">>

\* the Number whose decimal digits are ds (not empty), with the sign given
NumberOfDigits(sign, ds) ==
  LET sig == SubSeq(ds, SkipZeros(ds, 1), Len(ds))
  IN  IF Len(sig) < 10 THEN Num(sign * NatOfDigits(sig, 1, 0))
      ELSE IF Len(sig) < MaxValueDigits THEN BigNum(sign, sig)
      ELSE IF Len(sig) = MaxValueDigits /\ SeqLess(sig, MaxValuePrefix, 1)
           THEN BigNum(sign, sig)
      ELSE Infinity(sign)

RECURSIVE String(_)
RECURSIVE JoinFrom(_, _)
\* Array.prototype.join(","): null and undefined elements give ""
JoinFrom(a, i) ==
  IF i > Len(a) THEN <<>>
  ELSE (IF i > 1 THEN <<",">> ELSE <<>>)
         \o (IF a[i].t \in {"undefined", "null"} THEN <<>> ELSE String(a[i]))
         \o JoinFrom(a, i + 1)

\* String(v)
String(v) ==
  CASE v.t = "undefined" -> <<"u", "n", "d", "e", "f", "i", "n", "e", "d">>
    [] v.t = "null" -> <<"n", "u", "l", "l">>
    [] v.t = "boolean" ->
         IF v.n = 1 THEN <<"t", "r", "u", "e">> ELSE <<"f", "a", "l", "s", "e">>
    [] v.t = "number" -> Decimal(v.n)
    [] v.t = "bignumber" ->
         (IF v.n < 0 THEN <<"-">> ELSE <<>>)
           \o (IF Len(v.s) <= 21 THEN v.s
               ELSE <<v.s[1], "e", "+">> \o DecimalOfNat(Len(v.s) - 1))
    [] v.t = "infinity" ->
         (IF v.n < 0 THEN <<"-">> ELSE <<>>)
           \o <<"I", "n", "f", "i", "n", "i", "t", "y">>
    [] v.t = "nan" -> <<"N", "a", "N">>
    [] v.t = "string" -> v.s
    [] v.t = "array" -> JoinFrom(v.a, 1)
    [] v.t = "object" ->
         <<"[", "o", "b", "j", "e", "c", "t", " ", "O", "b", "j", "e", "c",
           "t", "]">>

\* parseInt(s) with no radix: white space, a sign, then the longest run of
\* decimal digits; NaN when there is none.  (A "0x" prefix selects radix 16;
\* no year of the inputs has one.)
ParseInt(s) ==
  LET i == SkipWs(s, 1)
      neg == i <= Len(s) /\ s[i] = "-"
      j == IF i <= Len(s) /\ s[i] \in {"-", "+"} THEN i + 1 ELSE i
      k == SkipDigits(s, j)
  IN  IF k = j THEN NaN
      ELSE NumberOfDigits(IF neg THEN -1 ELSE 1, SubSeq(s, j, k - 1))

(***************************************************************************)
(* JSON.parse.  A parse result is [ok, v, i]: whether a value was read, the *)
(* value, and the position after it.  Numbers are integers (no input has a *)
(* fraction or an exponent), string escapes are \" \\ \/ and \n.            *)
(***************************************************************************)
Parsed(v, i) == [ok |-> TRUE, v |-> v, i |-> i]

Failed == [ok |-> FALSE, v |-> Undefined, i |-> 0]

RECURSIVE ParseString(_, _, _)
\* the characters of a string literal whose opening quote is before i: up to
\* the closing quote, an escape, or a control character (a syntax error)
ParseString(s, i, acc) ==
  LET j == FirstFrom(s, i, {p \in DOMAIN s :
                               s[p] \in {"\"", "\\", "\n", "\t", "\r"}})
      run == acc \o SubSeq(s, i, j - 1)
  IN  IF j > Len(s) THEN Failed
      ELSE IF s[j] = "\"" THEN Parsed(Str(run), j + 1)
      ELSE IF s[j] = "\\" /\ j + 1 <= Len(s)
           THEN IF s[j + 1] \in {"\"", "\\", "/"}
                THEN ParseString(s, j + 2, Append(run, s[j + 1]))
                ELSE IF s[j + 1] = "n"
                     THEN ParseString(s, j + 2, Append(run, "\n"))
                     ELSE Failed
      ELSE Failed

ParseNumber(s, j) ==
  LET neg == s[j] = "-"
      d == IF neg THEN j + 1 ELSE j
      k == SkipDigits(s, d)
  IN  IF k = d THEN Failed
      ELSE IF s[d] = "0" /\ k > d + 1 THEN Failed
      ELSE IF k <= Len(s) /\ s[k] \in {".", "e", "E"} THEN Failed
      ELSE Parsed(NumberOfDigits(IF neg THEN -1 ELSE 1, SubSeq(s, d, k - 1)), k)

RECURSIVE ParseValue(_, _)
RECURSIVE ParseElements(_, _, _)
RECURSIVE ParseMembers(_, _, _)

\* the elements of an array, from the one at i on
ParseElements(s, i, acc) ==
  LET r == ParseValue(s, i)
      k == SkipWs(s, r.i)
  IN  IF ~r.ok \/ k > Len(s) THEN Failed
      ELSE IF s[k] = "," THEN ParseElements(s, k + 1, Append(acc, r.v))
      ELSE IF s[k] = "]" THEN Parsed(Arr(Append(acc, r.v)), k + 1)
      ELSE Failed

\* the members of an object, from the one at i on; a repeated key keeps its
\* first place and takes the last value
ParseMembers(s, i, obj) ==
  LET j == SkipWs(s, i)
      key == IF j <= Len(s) /\ s[j] = "\"" THEN ParseString(s, j + 1, <<>>)
             ELSE Failed
      c == SkipWs(s, key.i)
      r == IF key.ok /\ c <= Len(s) /\ s[c] = ":" THEN ParseValue(s, c + 1)
           ELSE Failed
      k == SkipWs(s, r.i)
  IN  IF ~r.ok \/ k > Len(s) THEN Failed
      ELSE IF s[k] = "," THEN ParseMembers(s, k + 1, Put(obj, key.v.s, r.v))
      ELSE IF s[k] = "}" THEN Parsed(Put(obj, key.v.s, r.v), k + 1)
      ELSE Failed

ParseValue(s, i) ==
  LET j == SkipWs(s, i)
      n == SkipWs(s, j + 1)
  IN  IF j > Len(s) THEN Failed
      ELSE IF s[j] = "{"
           THEN IF n <= Len(s) /\ s[n] = "}" THEN Parsed(Obj(<<>>), n + 1)
                ELSE ParseMembers(s, j + 1, Obj(<<>>))
      ELSE IF s[j] = "["
           THEN IF n <= Len(s) /\ s[n] = "]" THEN Parsed(Arr(<<>>), n + 1)
                ELSE ParseElements(s, j + 1, <<>>)
      ELSE IF s[j] = "\"" THEN ParseString(s, j + 1, <<>>)
      ELSE IF s[j] \in Digits \cup {"-"} THEN ParseNumber(s, j)
      ELSE IF StartsWithAt(s, j, <<"n", "u", "l", "l">>)
           THEN Parsed(Null, j + 4)
      ELSE IF StartsWithAt(s, j, <<"t", "r", "u", "e">>)
           THEN Parsed(Bool(TRUE), j + 4)
      ELSE IF StartsWithAt(s, j, <<"f", "a", "l", "s", "e">>)
           THEN Parsed(Bool(FALSE), j + 5)
      ELSE Failed

\* JSON.parse(s): [ok, v]; ~ok stands for the SyntaxError it throws
JSONParse(s) ==
  LET r == ParseValue(s, 1)
  IN  IF r.ok /\ SkipWs(s, r.i) > Len(s) THEN r ELSE Failed

(***************************************************************************)
(* JSON.stringify, the re-serialization of a graph.                        *)
(***************************************************************************)
RECURSIVE QuoteFrom(_, _)
\* the characters of s from i on, with \" \\ and \n escaped
QuoteFrom(s, i) ==
  LET j == FirstFrom(s, i, {p \in DOMAIN s : s[p] \in {"\"", "\\", "\n"}})
  IN  IF j > Len(s) THEN SubSeq(s, i, Len(s))
      ELSE SubSeq(s, i, j - 1)
             \o <<"\\", IF s[j] = "\n" THEN "n" ELSE s[j]>>
             \o QuoteFrom(s, j + 1)

Quote(s) == <<"\"">> \o QuoteFrom(s, 1) \o <<"\"">>

RECURSIVE Stringify(_)
RECURSIVE StringifyElements(_, _)
RECURSIVE StringifyMembers(_, _, _)

StringifyElements(a, i) ==
  IF i > Len(a) THEN <<>>
  ELSE (IF i > 1 THEN <<",">> ELSE <<>>)
         \o (IF a[i].t = "undefined" THEN <<"n", "u", "l", "l">>
             ELSE Stringify(a[i]))
         \o StringifyElements(a, i + 1)

\* a property whose value is undefined is left out
StringifyMembers(o, i, first) ==
  IF i > Len(o) THEN <<>>
  ELSE IF o[i].v.t = "undefined" THEN StringifyMembers(o, i + 1, first)
  ELSE (IF first THEN <<>> ELSE <<",">>)
         \o Quote(o[i].k) \o <<":">> \o Stringify(o[i].v)
         \o StringifyMembers(o, i + 1, FALSE)

Stringify(v) ==
  CASE v.t \in {"undefined", "null", "infinity", "nan"} -> <<"n", "u", "l", "l">>
    [] v.t \in {"boolean", "number", "bignumber"} -> String(v)
    [] v.t = "string" -> Quote(v.s)
    [] v.t = "array" -> <<"[">> \o StringifyElements(v.a, 1) \o <<"]">>
    [] v.t = "object" -> <<"{">> \o StringifyMembers(v.o, 1, TRUE) \o <<"}">>

(***************************************************************************)
(* The normalization of parseAndSanitize (lines 141-162).                  *)
(***************************************************************************)
NodesKey == <<"n", "o", "d", "e", "s">>

LinksKey == <<"l", "i", "n", "k", "s">>

IdKey == <<"i", "d">>

TitleKey == <<"t", "i", "t", "l", "e">>

YearKey == <<"y", "e", "a", "r">>

AuthorsKey == <<"a", "u", "t", "h", "o", "r", "s">>

SourceKey == <<"s", "o", "u", "r", "c", "e">>

TargetKey == <<"t", "a", "r", "g", "e", "t">>

TypeKey == <<"t", "y", "p", "e">>

DescriptionKey == <<"d", "e", "s", "c", "r", "i", "p", "t", "i", "o", "n">>

\* new Date().getFullYear()
getFullYear == 2026

\* the error of line 166
ParseError ==
  "Failed to parse analysis results. The model returned invalid JSON."

\* lines 148-149
SanitizeYear(year) ==
  LET y == ParseInt(String(year))
  IN  IF y.t = "nan" THEN Num(getFullYear) ELSE y

\* lines 150-152
SanitizeAuthors(authors) ==
  IF ~IsArray(authors)
  THEN IF IsString(authors) THEN Arr(<<authors>>) ELSE Arr(<<>>)
  ELSE authors

\* the body of data.nodes.forEach (lines 147-152), for an object or array
SanitizeNode(node) ==
  LET n1 == Put(node, IdKey, Str(String(Get(node, IdKey))))
      n2 == Put(n1, YearKey, SanitizeYear(Get(n1, YearKey)))
  IN  Put(n2, AuthorsKey, SanitizeAuthors(Get(n2, AuthorsKey)))

\* line 155: new Set(data.nodes.map(n => n.id))
NodeIdSet(nodes) == {Get(nodes[i], IdKey).s : i \in 1..Len(nodes)}

\* LinkValid with "||" in the place of "&&"
LinkValidEither(link, nodeIds) ==
  LET sourceValid == String(Get(link, SourceKey)) \in nodeIds
      targetValid == String(Get(link, TargetKey)) \in nodeIds
  IN  sourceValid \/ targetValid

\* LinkValid without String(): nodeIds.has(link.source)
LinkValidUncoerced(link, nodeIds) ==
  LET sourceValid == IsString(Get(link, SourceKey))
                       /\ Get(link, SourceKey).s \in nodeIds
      targetValid == IsString(Get(link, TargetKey))
                       /\ Get(link, TargetKey).s \in nodeIds
  IN  sourceValid /\ targetValid

\* lines 157-159, for a link that is not null
LinkValid(link, nodeIds) ==
  LET sourceValid == String(Get(link, SourceKey)) \in nodeIds
      targetValid == String(Get(link, TargetKey)) \in nodeIds
  IN  sourceValid /\ targetValid

\* !v
Falsy(v) ==
  \/ v.t \in {"undefined", "null", "nan"}
  \/ v.t = "boolean" /\ v.n = 0
  \/ v.t = "number" /\ v.n = 0
  \/ v.t = "string" /\ v.s = <<>>

\* DefaultList without the Array.isArray test
DefaultListFalsy(d, key) ==
  IF Falsy(Get(d, key)) THEN Put(d, key, Arr(<<>>)) ELSE d

\* lines 143-144
DefaultList(d, key) ==
  IF ~IsArray(Get(d, key)) THEN Put(d, key, Arr(<<>>)) ELSE d

\* NodeThrows where a write to a primitive is ignored
NodeThrowsNullOnly(node) == node.t = "null"

\* data.nodes.forEach throws a TypeError on an entry that is null (a read of
\* null.id) or a primitive (a write to a primitive, in module code)
NodeThrows(node) == ~IsObjectLike(node)

\* the filter callback throws a TypeError on an entry that is null
LinkThrows(link) == link.t = "null"

Returned(v) == [ok |-> TRUE, v |-> v]

Thrown == [ok |-> FALSE, v |-> Undefined]

\* lines 143-162 on the value JSON.parse returned: [ok, v], ~ok standing
\* for a TypeError thrown inside the try block (by a property of null, a
\* write to a primitive, or forEach / filter of a value that is no array)
Sanitize(parsedData) ==
  IF ~IsObjectLike(parsedData) THEN Thrown
  ELSE LET d == DefaultList(DefaultList(parsedData, NodesKey), LinksKey)
           nodes == Get(d, NodesKey).a
           links == Get(d, LinksKey).a
       IN  IF ~IsArray(Get(d, NodesKey)) \/ ~IsArray(Get(d, LinksKey))
           THEN Thrown
           ELSE IF \E i \in 1..Len(nodes) : NodeThrows(nodes[i]) THEN Thrown
           ELSE LET sanitized == [i \in 1..Len(nodes) |-> SanitizeNode(nodes[i])]
                    nodeIds == NodeIdSet(sanitized)
                IN  IF \E i \in 1..Len(links) : LinkThrows(links[i])
                    THEN Thrown
                    ELSE Returned(
                           Put(Put(d, NodesKey, Arr(sanitized)), LinksKey,
                               Arr(SelectSeq(links,
                                     LAMBDA l : LinkValid(l, nodeIds)))))

(***************************************************************************)
(* The payloads of the producer, and the texts that encode them.           *)
(***************************************************************************)
MaxNodes == 2

MaxLinks == 1

SeqsUpTo(S, n) == UNION {[1..k -> S] : k \in 0..n}

Repeat(c, n) == [i \in 1..n |-> c]

Node(id, title, year, authors) ==
  Obj(<<Prop(IdKey, id), Prop(TitleKey, title), Prop(YearKey, year),
        Prop(AuthorsKey, authors)>>)

Link(source, target, type, description) ==
  Obj(<<Prop(SourceKey, source), Prop(TargetKey, target), Prop(TypeKey, type),
        Prop(DescriptionKey, description)>>)

Graph(nodes, links) ==
  Obj(<<Prop(NodesKey, Arr(nodes)), Prop(LinksKey, Arr(links))>>)

\* src/types.ts, RelationType
Inheritance == <<"I", "n", "h", "e", "r", "i", "t", "a", "n", "c", "e">>

Conflict == <<"C", "o", "n", "f", "l", "i", "c", "t">>

Inspiration == <<"I", "n", "s", "p", "i", "r", "a", "t", "i", "o", "n">>

Citation == <<"C", "i", "t", "a", "t", "i", "o", "n">>

RelationType == {Inheritance, Conflict, Inspiration, Citation}

\* what a producer may put in a node's year field
YearValues ==
  {Undefined, Null, Bool(TRUE), Obj(<<>>), Arr(<<Num(2019)>>),
   Num(2020), Num(0), Num(-5),
   Str(<<"2", "0", "2", "0">>), Str(<<" ", "2", "0", "2", "1">>),
   Str(<<"2", "0", "x">>), Str(<<"x">>), Str(<<>>), Str(<<"-", "7">>),
   Str(<<"+", "7">>), Str(<<"0", "0", "7">>),
   Str(Repeat("9", 12)), Str(Repeat("9", 309))}

\* what a producer may put in a node's authors field
AuthorsValues ==
  {Undefined, Null, Num(3), Bool(FALSE), Obj(<<>>), Str(<<"p">>), Str(<<>>),
   Arr(<<>>), Arr(<<Str(<<"p">>), Str(<<"q">>)>>),
   Arr(<<Str(<<"q">>), Str(<<"p">>)>>), Arr(<<Num(1)>>),
   Arr(<<Null, Str(<<"p">>)>>)}

\* node identities, as numbers and as strings
IdValues == {Num(1), Str(<<"1">>), Str(<<"a">>)}

\* the source and the target of a link: both a node's id as a number or as
\* a string, one as a number and one as a string, or one naming no node
EndPairs ==
  {<<Num(1), Num(1)>>, <<Str(<<"1">>), Str(<<"1">>)>>, <<Str(<<"1">>), Num(1)>>,
   <<Num(1), Str(<<"z">>)>>, <<Str(<<"z">>), Str(<<"1">>)>>}

\* what a producer may put in a link's type field: a string
TypeValues ==
  {Str(Inheritance), Str(Conflict), Str(Inspiration), Str(Citation),
   Str(<<"F", "o", "o">>), Str(<<"c", "i", "t", "a", "t", "i", "o", "n">>)}

\* or something else
OddTypeValues == {Undefined, Null, Num(1)}

\* string fields holding what the repair steps look for
TextValues ==
  {<<"X">>, <<"a", ",", "b", ":", "c">>, <<"a", ",", " ", "b", " ", ":">>,
   <<"{", "k", ":", "1">>, <<"a", ",", "}">>, <<"a", ",", " ", "]">>,
   <<"a", BackTick, BackTick, BackTick, "b">>,
   <<"a", ",", "'", "b", "'", ":">>, <<"}", " ", "{">>}

\* entries of a node list or a link list that are no objects
OddEntries == {Null, Num(5), Str(<<"x">>), Bool(TRUE), Arr(<<>>), Obj(<<>>)}

\* values in the place of a node list or a link list
OddLists ==
  {Undefined, Null, Num(0), Str(<<"x">>), Obj(<<>>), Bool(TRUE)}

NodeA == Node(Str(<<"a">>), Str(<<"X">>), Num(2018), Arr(<<Str(<<"p">>)>>))

NodeB == Node(Str(<<"b">>), Str(<<"Y">>), Num(2021), Arr(<<>>))

LinkAB == Link(Str(<<"a">>), Str(<<"b">>), Str(Inheritance), Str(<<"u">>))

YearPayloads ==
  {Graph(<<Node(Str(<<"a">>), Str(<<"X">>), y, Arr(<<>>))>>, <<>>) :
     y \in YearValues}

AuthorsPayloads ==
  {Graph(<<Node(Str(<<"a">>), Str(<<"X">>), Num(2020), au)>>, <<>>) :
     au \in AuthorsValues}

IdPayloads ==
  {Graph([i \in 1..Len(ids) |->
            Node(ids[i], Str(<<"X">>), Num(2020), Arr(<<>>))],
         [i \in 1..Len(ends) |->
            Link(ends[i][1], ends[i][2], Str(Citation), Str(<<>>))]) :
     ids \in SeqsUpTo(IdValues, MaxNodes),
     ends \in SeqsUpTo(EndPairs, MaxLinks)}

\* an identity left out: String(undefined) is "undefined"
AbsentIdPayloads ==
  {Graph(<<Node(id, Str(<<"X">>), Num(2020), Arr(<<>>))>>, <<l>>) :
     id \in {Undefined, Null, Str(<<"u", "n", "d", "e", "f", "i", "n", "e", "d">>)},
     l \in {Link(Undefined, Undefined, Str(Citation), Str(<<>>)),
            Link(Null, Null, Str(Citation), Str(<<>>)),
            Num(5), Str(<<"x">>), Arr(<<>>), Obj(<<>>)}}

TypePayloads ==
  {Graph(<<NodeA, NodeB>>,
         <<Link(Str(<<"a">>), Str(<<"b">>), ty, Str(<<"u">>))>>) :
     ty \in TypeValues}

OddTypePayloads ==
  {Graph(<<NodeA, NodeB>>,
         <<Link(Str(<<"a">>), Str(<<"b">>), ty, Str(<<"u">>))>>) :
     ty \in OddTypeValues}

TextPayloads ==
  {Graph(<<Node(Str(<<"a">>), Str(t), Num(2018), Arr(<<Str(<<"p">>)>>)), NodeB>>,
         <<Link(Str(<<"a">>), Str(<<"b">>), Str(Inheritance), Str(d))>>) :
     t \in TextValues, d \in TextValues}

EntryPayloads ==
  {Graph(<<NodeA, e>>, <<LinkAB>>) : e \in OddEntries}
    \cup {Graph(<<e>>, <<>>) : e \in OddEntries}
    \cup {Graph(<<NodeA, NodeB>>, <<LinkAB, e>>) : e \in OddEntries}
    \cup {Graph(<<>>, <<e>>) : e \in OddEntries}

ListPayloads ==
  {Obj(<<Prop(NodesKey, n), Prop(LinksKey, l)>>) :
     n \in OddLists \cup {Arr(<<NodeA, NodeB>>)},
     l \in OddLists \cup {Arr(<<LinkAB>>), Arr(<<Null>>), Arr(<<Num(5)>>)}}

TopLevelPayloads ==
  {Null, Num(5), Num(0), Str(<<"x">>), Str(<<>>), Bool(TRUE), Bool(FALSE),
   Arr(<<>>), Arr(<<NodeA>>), Obj(<<>>)}

\* payloads that are a graph of node objects and link objects, every field
\* in its place
GraphPayloads ==
  YearPayloads \cup AuthorsPayloads \cup IdPayloads \cup TypePayloads
    \cup TextPayloads

\* payloads with something left out or of another shape
OddPayloads ==
  AbsentIdPayloads \cup OddTypePayloads \cup EntryPayloads \cup ListPayloads
    \cup TopLevelPayloads

\* texts that are not the JSON.stringify of a payload
BareKeysText ==
  <<"{", "n", "o", "d", "e", "s", ":", "[", "{", "i", "d", ":", "1", ",",
    "t", "i", "t", "l", "e", ":", "\"", "X", "\"", ",", "y", "e", "a", "r",
    ":", "\"", "2", "0", "2", "0", "\"", "}", "]", ",", "l", "i", "n", "k",
    "s", ":", "[", "]", "}">>

SingleQuotedText ==
  <<"{", "'", "n", "o", "d", "e", "s", "'", ":", " ", "[", "{", "'", "i",
    "d", "'", " ", ":", " ", "\"", "a", "\"", ",", " ", "'", "y", "e", "a",
    "r", "'", ":", " ", "2", "0", "2", "0", "}", "]", ",", " ", "'", "l",
    "i", "n", "k", "s", "'", ":", " ", "[", "]", "}">>

TrailingCommaText ==
  <<"{", "\"", "n", "o", "d", "e", "s", "\"", ":", "[", "{", "\"", "i",
    "d", "\"", ":", "\"", "a", "\"", ",", "\"", "t", "i", "t", "l", "e",
    "\"", ":", "\"", "X", "\"", ",", "\"", "y", "e", "a", "r", "\"", ":",
    "2", "0", "2", "0", ",", "\"", "a", "u", "t", "h", "o", "r", "s", "\"",
    ":", "[", "\"", "p", "\"", ",", "]", ",", "}", ",", "]", ",", "\"",
    "l", "i", "n", "k", "s", "\"", ":", "[", " ", "]", ",", "\n", "}">>

ProseText ==
  <<"S", "o", "r", "r", "y", ",", " ", "n", "o", " ", "r", "e", "s", "u",
    "l", "t", "s", ".">>

TruncatedText ==
  <<"{", "\"", "n", "o", "d", "e", "s", "\"", ":", "[", "{", "\"", "i",
    "d", "\"", ":", "\"", "a", "\"", ",", "\"", "t", "i", "t", "l", "e",
    "\"", ":", "\"", "X", "\"">>

SwappedBracesText ==
  <<"}", " ", "x", " ", "{">>

FencedText ==
  FenceJson \o <<"\n">> \o Stringify(Graph(<<NodeA, NodeB>>, <<LinkAB>>))
    \o <<"\n">> \o Fence \o <<"\n">>

FencedTrailingCommaText == Fence \o TrailingCommaText \o Fence

PreambleText ==
  <<"H", "e", "r", "e", ":", " ">>
    \o Stringify(Graph(<<NodeA>>, <<>>)) \o <<" ", "d", "o", "n", "e", ".">>

BracedPreambleText ==
  <<"s", "e", "e", " ", "{", "1", "}", " ">>
    \o Stringify(Graph(<<NodeA>>, <<>>))

\* a year written as a number of many digits
YearDigitsText(digits) ==
  <<"{", "\"", "n", "o", "d", "e", "s", "\"", ":", "[", "{", "\"", "i", "d",
    "\"", ":", "\"", "a", "\"", ",", "\"", "y", "e", "a", "r", "\"", ":">>
    \o digits \o <<"}", "]", "}">>

RawTexts ==
  {<<>>, <<" ", "\n">>, YearDigitsText(<<"1">> \o Repeat("0", 22)),
   YearDigitsText(Repeat("9", 12)), YearDigitsText(Repeat("9", 309)),
   YearDigitsText(<<"-">> \o Repeat("9", 309)), BareKeysText, SingleQuotedText, TrailingCommaText,
   ProseText, TruncatedText, SwappedBracesText, FencedText,
   FencedTrailingCommaText, PreambleText, BracedPreambleText}

RECURSIVE Encode(_, _, _)
RECURSIVE EncodeElements(_, _, _, _)
RECURSIVE EncodeMembers(_, _, _, _, _)

\* the text of a producer that breaks the strict JSON rules: the keys of
\* objects written bare, and the text tc (a comma, or nothing) written
\* after the last entry of every array and object that has entries
EncodeElements(a, i, bare, tc) ==
  IF i > Len(a) THEN (IF Len(a) > 0 THEN tc ELSE <<>>)
  ELSE (IF i > 1 THEN <<",">> ELSE <<>>)
         \o (IF a[i].t = "undefined" THEN <<"n", "u", "l", "l">>
             ELSE Encode(a[i], bare, tc))
         \o EncodeElements(a, i + 1, bare, tc)

EncodeMembers(o, i, first, bare, tc) ==
  IF i > Len(o) THEN (IF first THEN <<>> ELSE tc)
  ELSE IF o[i].v.t = "undefined" THEN EncodeMembers(o, i + 1, first, bare, tc)
  ELSE (IF first THEN <<>> ELSE <<",">>)
         \o (IF bare THEN o[i].k ELSE Quote(o[i].k))
         \o <<":">> \o Encode(o[i].v, bare, tc)
         \o EncodeMembers(o, i + 1, FALSE, bare, tc)

Encode(v, bare, tc) ==
  CASE v.t \in {"undefined", "null", "infinity", "nan"} -> <<"n", "u", "l", "l">>
    [] v.t \in {"boolean", "number", "bignumber"} -> String(v)
    [] v.t = "string" -> Quote(v.s)
    [] v.t = "array" -> <<"[">> \o EncodeElements(v.a, 1, bare, tc) \o <<"]">>
    [] v.t = "object" ->
         <<"{">> \o EncodeMembers(v.o, 1, TRUE, bare, tc) \o <<"}">>

\* bare keys
BareKeys(p) == Encode(p, TRUE, <<>>)

\* graphs whose node ids are numbers and whose years are digit strings
BareKeyIds == {Num(1), Num(0), Num(42)}

BareKeyYears ==
  {Str(<<"2", "0", "2", "0">>), Str(<<"1", "9", "9", "9">>),
   Str(<<"0", "0", "7">>),
   Str(<<"1", "2", "3", "4", "5", "6", "7", "8", "9">>)}

BareKeyPayloads ==
  {Graph(<<Node(id, Str(<<"X">>), y, Arr(<<>>))>>, <<>>) :
     id \in BareKeyIds, y \in BareKeyYears}
    \cup {Graph(<<Node(id, Str(<<"A", ":", " ", "b", " ", "c">>), y,
                       Arr(<<Str(<<"p">>), Str(<<"q">>)>>)),
                  Node(Num(7), Str(<<"Y">>), Str(<<"2", "0", "2", "1">>),
                       Arr(<<>>))>>,
                <<Link(id, Num(7), Str(Citation), Str(<<"u">>))>>) :
            id \in BareKeyIds, y \in BareKeyYears}

\* a trailing comma, alone or with white space before the closer
TrailingCommas == {<<",">>, <<",", "\n", " ">>}

\* fence markers around a text with trailing commas
FencedTrailing(p, tc) ==
  FenceJson \o <<"\n">> \o Encode(p, FALSE, tc) \o <<"\n">> \o Fence

FencedPayloads ==
  YearPayloads \cup AuthorsPayloads \cup TypePayloads
    \cup {Graph(<<>>, <<>>), Graph(<<NodeA>>, <<>>),
          Graph(<<NodeA, NodeB>>, <<LinkAB>>)}

\* commentary a producer puts before and after the payload
Preambles ==
  {<<>>, <<"H", "e", "r", "e", ":", " ">>,
   <<"S", "u", "r", "e", ",", " ", "a", ":", "\n">>,
   FenceJson \o <<"\n">>,
   <<"s", "e", "e", " ", "{", "1", "}", " ">>,
   <<"a", " ", "}", " ">>}

Postambles ==
  {<<>>, <<" ", "d", "o", "n", "e", ".">>, <<"\n">> \o Fence,
   <<",", " ", "]">>, <<" ", ":", "}">>, <<" ", "{", "x">>}

Commented(pre, p, post) == pre \o Stringify(p) \o post

CommentedPayloads ==
  {Graph(<<>>, <<>>), Graph(<<NodeA>>, <<>>),
   Graph(<<NodeA, NodeB>>, <<LinkAB>>),
   Graph(<<Node(Num(1), Str(<<"a", ",", "}">>), Str(<<"x">>), Str(<<"p">>))>>,
         <<>>)}

\* a response: the payload the producer encoded (undefined for a text that
\* is not the serialization of one) and the text it sent
Response(p, t) == [payload |-> p, text |-> t]

\* responses whose text needs a repair step to be read
RepairResponses ==
  {Response(p, BareKeys(p)) : p \in BareKeyPayloads}
    \cup {Response(p, FencedTrailing(p, tc)) :
            p \in FencedPayloads, tc \in TrailingCommas}
    \cup {Response(p, Commented(pre, p, post)) :
            p \in CommentedPayloads, pre \in Preambles, post \in Postambles}

GraphResponses == {Response(p, Stringify(p)) : p \in GraphPayloads}

OddResponses ==
  {Response(p, Stringify(p)) : p \in OddPayloads}
    \cup {Response(Undefined, t) : t \in RawTexts}

(***************************************************************************)
(* The state machine: a response arrives, parseAndSanitize runs on it.     *)
(* Init is the state of the App before any request: no graph, the view not *)
(* mounted.                                                                *)
(***************************************************************************)
Init ==
  /\ text = <<>>
  /\ payload = Undefined
  /\ outcome = "idle"
  /\ cleanText = <<>>
  /\ parsed = Undefined
  /\ data = Undefined
  /\ error = ""
  /\ graphData = Graph(<<>>, <<>>)
  /\ searchQuery = <<>>
  /\ dimensions = [width |-> 0, height |-> 0]
  /\ pending = FALSE
  /\ cleanup = 0
  /\ rendered = 0
  /\ sims = <<>>
  /\ coreNodeId = Null
  /\ fill = <<>>
  /\ viewError = ""
  /\ nodeText = <<>>
  /\ linkText = <<>>
  /\ forceX = <<>>
  /\ linkPath = <<>>
  /\ graphObjects = [nodes |-> <<>>, links |-> <<>>]
  /\ loading = FALSE
  /\ history = <<>>
  /\ storage = [history |-> <<>>, cache |-> {}]
  /\ requests = <<>>
  /\ alerts = 0
  /\ lastAction = [kind |-> "none", data |-> Undefined]
  /\ clock = 0
  /\ historyLoaded = FALSE

\* lines 110 and 227: the content of the response, "{}" when it is empty
Receive(r) ==
  /\ outcome = "idle"
  /\ text' = IF r.text = <<>> THEN <<"{", "}">> ELSE r.text
  /\ payload' = r.payload
  /\ outcome' = "pending"
  /\ UNCHANGED <<cleanText, parsed, data, error>>
  /\ UNCHANGED viewVars
  /\ UNCHANGED appVars

\* lines 115-168
parseAndSanitize ==
  /\ outcome = "pending"
  /\ LET clean == Clean(text)
         json == JSONParse(clean)
         result == IF json.ok THEN Sanitize(json.v) ELSE Thrown
     IN  /\ cleanText' = clean
         /\ parsed' = IF json.ok THEN json.v ELSE Undefined
         /\ outcome' = IF result.ok THEN "returned" ELSE "thrown"
         /\ data' = result.v
         /\ error' = IF result.ok THEN "" ELSE ParseError
  /\ UNCHANGED <<text, payload>>
  /\ UNCHANGED viewVars
  /\ UNCHANGED appVars

Next ==
  \/ \E r \in GraphResponses : Receive(r)
  \/ \E r \in OddResponses : Receive(r)
  \/ \E r \in RepairResponses : Receive(r)
  \/ parseAndSanitize

Spec == Init /\ [][Next]_vars

(***************************************************************************)
(* Properties of the sanitizer.                                            *)
(***************************************************************************)
Done == outcome \in {"returned", "thrown"}

\* the node list and the link list JSON.parse delivered (empty when the
\* payload holds no list there)
ParsedNodes ==
  IF IsArray(Get(parsed, NodesKey)) THEN Get(parsed, NodesKey).a ELSE <<>>

ParsedLinks ==
  IF IsArray(Get(parsed, LinksKey)) THEN Get(parsed, LinksKey).a ELSE <<>>

\* the node list and the link list of the graph returned
DataNodes == Get(data, NodesKey).a

DataLinks == Get(data, LinksKey).a

CoercedIds(nodes) == {String(Get(nodes[i], IdKey)) : i \in 1..Len(nodes)}

\* C1: every link of a returned graph has a source and a target that,
\* coerced to string, are ids of nodes of that graph; a payload with no nodes
\* yields no nodes and no links.
C1_LinksResolve ==
  outcome = "returned" =>
    /\ \A i \in 1..Len(DataLinks) :
         /\ \E j \in 1..Len(DataNodes) :
              String(Get(DataLinks[i], SourceKey)) = String(Get(DataNodes[j], IdKey))
         /\ \E j \in 1..Len(DataNodes) :
              String(Get(DataLinks[i], TargetKey)) = String(Get(DataNodes[j], IdKey))
    /\ (Len(ParsedNodes) = 0 => Len(DataNodes) = 0 /\ Len(DataLinks) = 0)

\* a graph was returned with one link kept and another dropped
C1_Witness ==
  /\ outcome = "returned"
  /\ Len(DataLinks) >= 1
  /\ Len(ParsedLinks) > Len(DataLinks)

\* C2: every node's year of a returned graph is a finite integer.
C2_YearFiniteInteger ==
  outcome = "returned" =>
    \A i \in 1..Len(DataNodes) : IsFiniteInteger(Get(DataNodes[i], YearKey))

\* JSON.parse threw
ParseFailed == parsed = Undefined

\* an entry on which the normalization throws
FailingEntry ==
  \/ \E i \in 1..Len(ParsedNodes) : ~IsObjectLike(ParsedNodes[i])
  \/ \E i \in 1..Len(ParsedLinks) : ParsedLinks[i].t = "null"

PrimitiveLinkEntry ==
  \E i \in 1..Len(ParsedLinks) : ~IsObjectLike(ParsedLinks[i])

IsValidGraph(g) ==
  /\ g.t = "object"
  /\ IsArray(Get(g, NodesKey))
  /\ IsArray(Get(g, LinksKey))
  /\ LET nodes == Get(g, NodesKey).a
         links == Get(g, LinksKey).a
     IN  /\ \A i \in 1..Len(nodes) :
              /\ nodes[i].t = "object"
              /\ IsString(Get(nodes[i], IdKey))
              /\ IsString(Get(nodes[i], TitleKey))
              /\ Get(nodes[i], YearKey).t = "number"
              /\ IsArray(Get(nodes[i], AuthorsKey))
              /\ \A k \in 1..Len(Get(nodes[i], AuthorsKey).a) :
                   IsString(Get(nodes[i], AuthorsKey).a[k])
         /\ \A i, j \in 1..Len(nodes) :
              i # j => Get(nodes[i], IdKey) # Get(nodes[j], IdKey)
         /\ \A i \in 1..Len(links) :
              /\ links[i].t = "object"
              /\ \E j \in 1..Len(nodes) :
                   Get(links[i], SourceKey) = Get(nodes[j], IdKey)
              /\ \E j \in 1..Len(nodes) :
                   Get(links[i], TargetKey) = Get(nodes[j], IdKey)
              /\ IsString(Get(links[i], TypeKey))
              /\ Get(links[i], TypeKey).s \in RelationType
              /\ IsString(Get(links[i], DescriptionKey))

\* C4: sanitizing the JSON.stringify of a valid graph returns that graph.
C4_Idempotent ==
  (Done /\ IsValidGraph(payload) /\ text = Stringify(payload)) =>
    (outcome = "returned" /\ data = payload)

\* C5: a link whose source and target, coerced to string, are string-coerced
\* ids of nodes of the payload is kept.
C5_ValidLinksRetained ==
  outcome = "returned" =>
    \A i \in 1..Len(ParsedLinks) :
      (/\ String(Get(ParsedLinks[i], SourceKey)) \in CoercedIds(ParsedNodes)
       /\ String(Get(ParsedLinks[i], TargetKey)) \in CoercedIds(ParsedNodes))
        => \E j \in 1..Len(DataLinks) : DataLinks[j] = ParsedLinks[i]

\* a link with a numeric endpoint was kept, for a node whose id was a number
C5_Witness ==
  /\ outcome = "returned"
  /\ \E j \in 1..Len(DataLinks) : Get(DataLinks[j], SourceKey).t = "number"
  /\ \E i \in 1..Len(ParsedNodes) : Get(ParsedNodes[i], IdKey).t = "number"

\* C6: in a returned graph every node id and every link source and target is
\* a string, so each link endpoint is strictly equal to the id of a node.
C6_IdentitiesAreStrings ==
  outcome = "returned" =>
    /\ \A i \in 1..Len(DataNodes) : IsString(Get(DataNodes[i], IdKey))
    /\ \A i \in 1..Len(DataLinks) :
         /\ IsString(Get(DataLinks[i], SourceKey))
         /\ IsString(Get(DataLinks[i], TargetKey))
         /\ \E j \in 1..Len(DataNodes) :
              Get(DataLinks[i], SourceKey) = Get(DataNodes[j], IdKey)
         /\ \E j \in 1..Len(DataNodes) :
              Get(DataLinks[i], TargetKey) = Get(DataNodes[j], IdKey)

\* C7: the node ids of a returned graph are pairwise distinct.
C7_DistinctIds ==
  outcome = "returned" =>
    \A i, j \in 1..Len(DataNodes) :
      i # j => Get(DataNodes[i], IdKey) # Get(DataNodes[j], IdKey)

\* C8: every link of a returned graph has a type among Inheritance,
\* Conflict, Inspiration and Citation.
C8_ClosedTypes ==
  outcome = "returned" =>
    \A i \in 1..Len(DataLinks) :
      /\ IsString(Get(DataLinks[i], TypeKey))
      /\ Get(DataLinks[i], TypeKey).s \in RelationType

C10_AuthorsAreStrings ==
  outcome = "returned" =>
    \A i \in 1..Len(DataNodes) :
      LET authors == Get(DataNodes[i], AuthorsKey)
          given == Get(ParsedNodes[i], AuthorsKey)
      IN  /\ IsArray(authors)
          /\ \A k \in 1..Len(authors.a) : IsString(authors.a[k])
          /\ IsString(given) => authors = Arr(<<given>>)
          /\ IsArray(given) => authors = given
          /\ (~IsString(given) /\ ~IsArray(given)) => authors = Arr(<<>>)

\* what parseAndSanitize does with the text t
Result(t) ==
  LET json == JSONParse(Clean(t))
  IN  IF json.ok THEN Sanitize(json.v) ELSE Thrown

\* what it did with the text received
Outcome == [ok |-> outcome = "returned", v |-> data]

PayloadNodes ==
  IF IsArray(Get(payload, NodesKey)) THEN Get(payload, NodesKey).a ELSE <<>>

IsDigitString(v) ==
  /\ IsString(v)
  /\ Len(v.s) > 0
  /\ \A k \in 1..Len(v.s) : v.s[k] \in Digits

\* the text received is a graph written with bare keys, every node id a
\* number and every year a string of (fewer than 309) digits
BareKeysCase ==
  /\ Done
  /\ payload.t = "object"
  /\ Len(PayloadNodes) > 0
  /\ \A i \in 1..Len(PayloadNodes) :
       /\ Get(PayloadNodes[i], IdKey).t = "number"
       /\ IsDigitString(Get(PayloadNodes[i], YearKey))
       /\ Len(Get(PayloadNodes[i], YearKey).s) < MaxValueDigits
  /\ text = BareKeys(payload)

\* C11: a graph written with bare keys, a number as node id and a digit
\* string as year sanitizes to the graph whose nodes have the string form of
\* the id and the integer value of the year, title and authors as written.
C11_BareKeysRepaired ==
  BareKeysCase =>
    /\ outcome = "returned"
    /\ Len(DataNodes) = Len(PayloadNodes)
    /\ \A i \in 1..Len(PayloadNodes) :
         /\ Get(DataNodes[i], IdKey) = Str(String(Get(PayloadNodes[i], IdKey)))
         /\ Get(DataNodes[i], YearKey)
              = Num(NatOfDigits(Get(PayloadNodes[i], YearKey).s, 1, 0))
         /\ Get(DataNodes[i], TitleKey) = Get(PayloadNodes[i], TitleKey)
         /\ Get(DataNodes[i], AuthorsKey) = Get(PayloadNodes[i], AuthorsKey)

\* bare keys, id 42 and year "007" gave id "42" and year 7
C11_Witness ==
  /\ BareKeysCase
  /\ outcome = "returned"
  /\ \E i \in 1..Len(DataNodes) :
       /\ Get(PayloadNodes[i], IdKey) = Num(42)
       /\ Get(PayloadNodes[i], YearKey) = Str(<<"0", "0", "7">>)
       /\ Get(DataNodes[i], IdKey) = Str(<<"4", "2">>)
       /\ Get(DataNodes[i], YearKey) = Num(7)

\* the text received is a graph between fence markers, a comma written
\* after the last entry of each of its arrays and objects
FencedCase ==
  /\ Done
  /\ payload.t = "object"
  /\ \E tc \in TrailingCommas : text = FencedTrailing(payload, tc)

\* C12: a graph written with trailing commas and between fence markers
\* parses, and gives the graph that the text without the commas and without
\* the fences gives.
C12_FencesAndCommasRepaired ==
  FencedCase =>
    /\ outcome = "returned"
    /\ Outcome = Result(Stringify(payload))

\* a fenced graph with trailing commas was returned, nodes and links in it
C12_Witness ==
  /\ FencedCase
  /\ outcome = "returned"
  /\ text # Stringify(payload)
  /\ Len(DataNodes) = 2
  /\ Len(DataLinks) = 1

HasBrace(s) == \E k \in 1..Len(s) : s[k] \in {"{", "}"}

UpperLetters ==
  <<"A", "B", "C", "D", "E", "F", "G", "H", "I", "J", "K", "L", "M",
    "N", "O", "P", "Q", "R", "S", "T", "U", "V", "W", "X", "Y", "Z">>

LowerLetters ==
  <<"a", "b", "c", "d", "e", "f", "g", "h", "i", "j", "k", "l", "m",
    "n", "o", "p", "q", "r", "s", "t", "u", "v", "w", "x", "y", "z">>

ToLowerChar(c) ==
  IF \E k \in 1..Len(UpperLetters) : UpperLetters[k] = c
  THEN LowerLetters[CHOOSE k \in 1..Len(UpperLetters) : UpperLetters[k] = c]
  ELSE c

\* no folding of case
KeepCase(s) == s

\* String.prototype.toLowerCase
ToLowerCase(s) == [i \in 1..Len(s) |-> ToLowerChar(s[i])]

\* String.prototype.includes
Includes(s, q) == \E i \in 1..(Len(s) + 1) : StartsWithAt(s, i, q)

Truthy(v) == ~Falsy(v)

\* a === b for a primitive b
StrictEquals(a, b) == a.t = b.t /\ a.t \notin {"object", "array"} /\ a = b

GraphNodes(g) == Get(g, NodesKey).a

GraphLinks(g) == Get(g, LinksKey).a

PdfMarker == <<".", "p", "d", "f">>

\* n.title.toLowerCase() throws a TypeError unless the title is a string
TitleThrows(n) == ~IsString(Get(n, TitleKey))

TitleMatches(n, lowerQ) ==
  /\ IsString(Get(n, TitleKey))
  /\ Includes(ToLowerCase(Get(n, TitleKey).s), lowerQ)

\* lines 295-305: the core node.  nodes.find visits the nodes in order and
\* stops at the first match; a title that is no string, met before a match,
\* throws.
IdentifyCore(nodes, query) ==
  LET lowerQ == ToLowerCase(query)
      hits == {i \in 1..Len(nodes) : TitleMatches(nodes[i], lowerQ)}
      bad == {i \in 1..Len(nodes) : TitleThrows(nodes[i])}
      exact == IF hits = {} THEN Len(nodes) + 1
               ELSE CHOOSE i \in hits : \A j \in hits : i <= j
  IN  IF query = <<>> THEN [threw |-> FALSE, core |-> Null]
      ELSE IF \E i \in bad : i < exact THEN [threw |-> TRUE, core |-> Null]
      ELSE IF exact <= Len(nodes)
        THEN [threw |-> FALSE, core |-> Get(nodes[exact], IdKey)]
      ELSE IF Includes(query, PdfMarker)
        THEN [threw |-> FALSE, core |-> Get(nodes[1], IdKey)]
      ELSE [threw |-> FALSE, core |-> Null]

\* lines 362-363: forceLink(links).id(d => d.id), initialized when it is
\* added to the simulation: a Map from id to node (a later node with the
\* same id replaces an earlier one), and every link endpoint that is no
\* object replaced by the node the Map holds for it; an endpoint the Map
\* does not hold throws "node not found".
NodeById(nodes, id) ==
  LET found == {i \in 1..Len(nodes) : Get(nodes[i], IdKey) = id}
  IN  IF found = {} THEN 0 ELSE CHOOSE i \in found : \A j \in found : j <= i

TypeofObject(v) == v.t \in {"object", "array", "null"}

EndpointThrows(nodes, e) == ~TypeofObject(e) /\ NodeById(nodes, e) = 0

ResolveEndpoint(nodes, e) ==
  IF TypeofObject(e) THEN e ELSE nodes[NodeById(nodes, e)]

ForceLinkThrows(nodes, links) ==
  \E i \in 1..Len(links) :
    \/ EndpointThrows(nodes, Get(links[i], SourceKey))
    \/ EndpointThrows(nodes, Get(links[i], TargetKey))

ForceLink(nodes, links) ==
  [i \in 1..Len(links) |->
     Put(Put(links[i], SourceKey,
             ResolveEndpoint(nodes, Get(links[i], SourceKey))),
         TargetKey, ResolveEndpoint(nodes, Get(links[i], TargetKey)))]

\* the palette of getNodeColor and the colour by category
Gold == "#facc15"

Slate == "#94a3b8"

Pink == "#f472b6"

Neutral == "#e2e8f0"

CategoryColor == "categoryScale"

\* lines 313-316: the first link that joins d and the core, 0 if none
LinkToCore(d, core, links) ==
  LET joins == {i \in 1..Len(links) :
                  \/ /\ StrictEquals(Get(links[i], SourceKey), core)
                     /\ StrictEquals(Get(links[i], TargetKey), Get(d, IdKey))
                  \/ /\ StrictEquals(Get(links[i], TargetKey), core)
                     /\ StrictEquals(Get(links[i], SourceKey), Get(d, IdKey))}
  IN  IF joins = {} THEN 0 ELSE CHOOSE i \in joins : \A j \in joins : i <= j

\* lines 308-325
getNodeColor(d, core, links) ==
  LET l == LinkToCore(d, core, links)
      type == IF l = 0 THEN Undefined ELSE Get(links[l], TypeKey)
  IN  IF Truthy(core) /\ StrictEquals(Get(d, IdKey), core) THEN Gold
      ELSE IF Truthy(core) /\ l # 0 /\ StrictEquals(type, Str(Conflict))
        THEN Slate
      ELSE IF /\ Truthy(core)
              /\ l # 0
              /\ \/ StrictEquals(type, Str(Inheritance))
                 \/ StrictEquals(type, Str(Inspiration))
        THEN Pink
      ELSE Neutral

\* lines 435-439: the fill of each circle, evaluated with the links as the
\* simulation left them
NodeFill(nodes, core, links) ==
  [i \in 1..Len(nodes) |->
     IF Truthy(core) THEN getNodeColor(nodes[i], core, links)
     ELSE CategoryColor]

\* the guard without the test of the size
GuardNodesOnly(g, dims) == Len(GraphNodes(g)) = 0

\* line 288 (the svg element exists whenever the view is mounted)
LayoutGuard(g, dims) ==
  Len(GraphNodes(g)) = 0 \/ dims.width = 0 \/ dims.height = 0

(***************************************************************************)
(* Labels (lines 401-417 and 453-454) and the time scale (lines 334-342    *)
(* and 366-369).                                                           *)
(***************************************************************************)
MaxLabel == 20

Ellipsis == <<".", ".", ".">>

\* selection.text(value): the text content of the element
TextContent(v) == IF v.t \in {"undefined", "null"} THEN <<>> ELSE String(v)

\* d.title.length throws a TypeError on a title that is undefined or null,
\* and substring is no function of an array
LabelThrows(n) ==
  LET title == Get(n, TitleKey)
  IN  \/ title.t \in {"undefined", "null"}
      \/ IsArray(title) /\ Len(title.a) > MaxLabel

\* line 454
NodeLabel(n) ==
  LET title == Get(n, TitleKey)
  IN  IF IsString(title) /\ Len(title.s) > MaxLabel
      THEN SubSeq(title.s, 1, MaxLabel) \o Ellipsis
      ELSE TextContent(title)

\* line 417
LinkLabel(l) ==
  LET description == Get(l, DescriptionKey)
  IN  TextContent(IF Truthy(description) THEN description
                  ELSE Get(l, TypeKey))

PaddingLeft == 100

PaddingRight == 100

DefaultMinYear == 2020

DefaultMaxYear == 2024

\* the years of the nodes (numbers of fewer than ten digits in the graphs
\* followed here)
Years(nodes) == {Get(nodes[i], YearKey).n : i \in 1..Len(nodes)}

\* d3.min and d3.max
Min(S) == CHOOSE m \in S : \A n \in S : m <= n

Max(S) == CHOOSE m \in S : \A n \in S : n <= m

\* a || b on numbers
OrElse(a, b) == IF a = 0 THEN b ELSE a

\* lines 339-342: the linear scale, its domain held in half years
TimeScale(nodes, width) ==
  LET minYear == OrElse(Min(Years(nodes)), DefaultMinYear)
      maxYear == OrElse(Max(Years(nodes)), DefaultMaxYear)
  IN  [d0 |-> 2 * minYear - 1, d1 |-> 2 * maxYear + 1,
       r0 |-> PaddingLeft, r1 |-> width - PaddingRight]

\* scale(year), as a fraction: the line through (d0, r0) and (d1, r1), and
\* the middle of the range when the domain is a single point
ScaleAt(scale, year) ==
  LET span == scale.d1 - scale.d0
      num == scale.r0 * span + (2 * year - scale.d0) * (scale.r1 - scale.r0)
  IN  IF span = 0 THEN [num |-> scale.r0 + scale.r1, den |-> 2]
      ELSE IF span < 0 THEN [num |-> -num, den |-> -span]
      ELSE [num |-> num, den |-> span]

\* lines 366-369: the target of forceX for each node
ForceXTarget(nodes, width) ==
  [i \in 1..Len(nodes) |->
     ScaleAt(TimeScale(nodes, width), Get(nodes[i], YearKey).n)]

\* the d attribute of a path no tick has set yet
Unset == "unset"

(***************************************************************************)
(* The graphs and queries of the view, and its simulations.                *)
(***************************************************************************)
MaxRuns == 2

SurfaceWidth == 800

SurfaceHeight == 600

ViewNodeA ==
  Node(Str(<<"a">>), Str(<<"A", "l", "p", "h", "a">>), Num(2018), Arr(<<>>))

ViewNodeB ==
  Node(Str(<<"b">>), Str(<<"B", "e", "t", "a">>), Num(2021), Arr(<<>>))

\* a node the producer gave no title, and one whose title is a number
UntitledNode == Node(Str(<<"u">>), Undefined, Num(2020), Arr(<<>>))

NumberTitleNode == Node(Str(<<"n">>), Num(5), Num(2020), Arr(<<>>))

\* a title and a description of 21 characters
LongText ==
  <<"A", "b", "c", "d", "e", "f", "g", "h", "i", "j", "k", "l", "m", "n",
    "o", "p", "q", "r", "s", "t", "u">>

LongTitleNode == Node(Str(<<"l">>), Str(LongText), Num(2019), Arr(<<>>))

\* nodes of the years 0 and 5, and of the years -5 and -1
YearNode(id, year) == Node(Str(<<id>>), Str(<<"Y", id>>), Num(year), Arr(<<>>))

ViewPayloads ==
  {Graph(<<ViewNodeA, ViewNodeB>>,
         <<Link(Str(<<"a">>), Str(<<"b">>), Str(ty), Str(<<>>))>>) :
     ty \in RelationType}
    \cup {Graph(<<>>, <<>>), Graph(<<ViewNodeB>>, <<>>),
          Graph(<<UntitledNode, ViewNodeB>>, <<>>),
          Graph(<<ViewNodeB, NumberTitleNode>>, <<>>),
          Graph(<<LongTitleNode, ViewNodeB>>,
                <<Link(Str(<<"l">>), Str(<<"b">>), Str(Citation),
                       Str(LongText))>>),
          Graph(<<YearNode("z", 0), YearNode("f", 5)>>, <<>>),
          Graph(<<YearNode("m", -5), YearNode("o", -1)>>, <<>>),
          Graph(<<ViewNodeA, ViewNodeB>>,
                <<Link(Str(<<"a">>), Str(<<"b">>), Str(Conflict), Str(<<>>)),
                  Link(Str(<<"b">>), Str(<<"a">>), Str(Inheritance),
                       Str(<<>>))>>)}

\* the graphs the App passes to the view: results of parseAndSanitize
ViewGraphs == {Result(Stringify(p)).v : p \in ViewPayloads}

\* the query: the input the user typed, or the name of the file chosen
Queries ==
  {<<>>, <<"B", "E", "T", "A">>, <<"a">>, <<"z", "z">>,
   <<"x", ".", "p", "d", "f">>, <<"n", ".", "t", "x", "t">>}

Sizes ==
  {[width |-> w, height |-> h] :
     w \in {0, SurfaceWidth}, h \in {0, SurfaceHeight}}

\* a surface narrower than the two paddings of the time scale
NarrowWidth == 150

FocusSizes ==
  Sizes \cup {[width |-> NarrowWidth, height |-> SurfaceHeight]}

\* positions the pointer may give a node
Points == {<<Num(7), Num(0)>>}

\* positions of the pointer while two nodes are dragged
DragPoints == Points \cup {<<Num(-9), Num(8)>>}

\* positions the forces may give a node on a tick
TickPoints == {<<Num(7), Num(3)>>}

\* forceSimulation(nodes) places the nodes that have no position on a
\* spiral: the first at (7.07, 0), the second at (-9.03, 8.27)
InitialPoint(i) ==
  IF i = 1 THEN <<Num(7), Num(0)>>
  ELSE IF i = 2 THEN <<Num(-9), Num(8)>>
  ELSE <<Num(i), Num(i)>>

\* the ticks alpha takes, with alphaTarget 0, to decay from 1 below
\* alphaMin (300 with the decay forceSimulation sets), and the level alpha
\* tends to while alphaTarget is raised
AlphaTicks == 2

ReheatTicks == AlphaTicks - 1

\* a node object the layout never touched
NoPosition ==
  [x |-> Undefined, y |-> Undefined, fx |-> Undefined, fy |-> Undefined]

\* the fields the layout may have put on the node and link objects of a
\* graph: none
Unmarked(g) ==
  [nodes |-> [i \in 1..Len(GraphNodes(g)) |-> NoPosition],
   links |-> [i \in 1..Len(GraphLinks(g)) |-> FALSE]]

\* the run works on the objects of the graph themselves (ref i: the i-th)
ShareNodes(objs) ==
  [i \in 1..Len(objs) |->
     [x |-> objs[i].x, y |-> objs[i].y, fx |-> objs[i].fx, fy |-> objs[i].fy,
      ref |-> i]]

\* line 291: data.nodes.map(d => ({ ...d })), new objects (ref 0) with the
\* fields of the graph's
CopyNodes(objs) ==
  [i \in 1..Len(objs) |->
     [x |-> objs[i].x, y |-> objs[i].y, fx |-> objs[i].fx, fy |-> objs[i].fy,
      ref |-> 0]]

\* line 293: data.links.map((d, i) => ({ ...d, id })), new objects
CopyLinks(ends) == [i \in 1..Len(ends) |-> 0]

\* lines 362-363: a simulation over the copies, its timer running, alpha 1;
\* a node with fx goes there, a node without position on the spiral; the
\* links hold their two nodes
Simulation(copies, links) ==
  [running |-> TRUE,
   alpha |-> AlphaTicks,
   alphaTarget |-> 0,
   active |-> {},
   nodes |-> [i \in 1..Len(copies) |->
                LET c == copies[i]
                    placed == c.x.t = "number" /\ c.y.t = "number"
                IN  [x |-> IF c.fx.t = "number" THEN c.fx
                           ELSE IF placed THEN c.x ELSE InitialPoint(i)[1],
                     y |-> IF c.fy.t = "number" THEN c.fy
                           ELSE IF placed THEN c.y ELSE InitialPoint(i)[2],
                     fx |-> c.fx, fy |-> c.fy, ref |-> c.ref]],
   links |-> links]

\* the links of a run: the places of their two nodes among the copies
SimulationLinks(nodes, links, refs) ==
  [i \in 1..Len(links) |->
     [source |-> NodeById(nodes, Get(links[i], SourceKey)),
      target |-> NodeById(nodes, Get(links[i], TargetKey)),
      ref |-> refs[i]]]

\* what the objects of the graph hold once the simulations ss wrote to the
\* objects they work on
WriteThrough(objs, ss) ==
  [nodes |->
     [i \in 1..Len(objs.nodes) |->
        LET users == {u \in {<<s, k>> : s \in 1..Len(ss), k \in 1..2} :
                        /\ u[2] <= Len(ss[u[1]].nodes)
                        /\ ss[u[1]].nodes[u[2]].ref = i}
        IN  IF users = {} THEN objs.nodes[i]
            ELSE LET u == CHOOSE v \in users : \A w \in users : w[1] <= v[1]
                     d == ss[u[1]].nodes[u[2]]
                 IN  [x |-> d.x, y |-> d.y, fx |-> d.fx, fy |-> d.fy]],
   links |->
     [i \in 1..Len(objs.links) |->
        \/ objs.links[i]
        \/ \E s \in 1..Len(ss) :
             \E k \in 1..Len(ss[s].links) : ss[s].links[k].ref = i]]

\* the objects of a graph that is no longer shown are out of the state
Unref(ss) ==
  [s \in 1..Len(ss) |->
     [ss[s] EXCEPT
        !.nodes = [k \in 1..Len(ss[s].nodes) |->
                     [ss[s].nodes[k] EXCEPT !.ref = 0]],
        !.links = [k \in 1..Len(ss[s].links) |->
                     [ss[s].links[k] EXCEPT !.ref = 0]]]]

\* simulation.stop()
Stop(ss, s) == IF s = 0 THEN ss ELSE [ss EXCEPT ![s].running = FALSE]

\* a simulation whose timer is stopped, whose elements are out of the svg
\* and on which no drag is going on is out of reach of every handler: its
\* node copies are dropped from the state
Forget(ss, r) ==
  [s \in 1..Len(ss) |->
     IF ~ss[s].running /\ ss[s].active = {} /\ s # r
     THEN [ss[s] EXCEPT !.nodes = <<>>, !.links = <<>>, !.alpha = 0]
     ELSE ss[s]]

\* part_003 line 575: the view is rendered only for a graph with nodes
Mounted == Len(GraphNodes(graphData)) > 0

\* every gesture counts
NoOthers(active, i) == {}

\* event.active of d3-drag: the gestures of the behaviour other than this one
Others(active, i) == active \ {i}

\* alpha stays where it is
AlphaHeld(alpha, target) == alpha

\* a tick of the timer: alpha += (alphaTarget - alpha) * alphaDecay
AlphaStep(alpha, target) ==
  IF target = 0 THEN (IF alpha > 0 THEN alpha - 1 ELSE 0)
  ELSE IF alpha < ReheatTicks THEN alpha + 1
  ELSE IF alpha > ReheatTicks THEN alpha - 1
  ELSE alpha

\* lines 476-481: the d attribute of a link's path
LinkArc(s, t) ==
  IF Falsy(s.x) \/ Falsy(s.y) \/ Falsy(t.x) \/ Falsy(t.y) THEN ""
  ELSE "arc"

(***************************************************************************)
(* The state machine of the view.  A change of a dependency makes the      *)
(* layout effect due; React runs it, after the cleanup the previous run    *)
(* returned, some time after the change, and handlers of the elements in   *)
(* the svg may run in between.                                             *)
(***************************************************************************)
\* part_003 lines 154, 205, 219
GraphDataChanged(g) ==
  /\ graphData' = g
  /\ graphObjects' = Unmarked(g)
  /\ IF Len(GraphNodes(g)) = 0
     THEN \* the view is unmounted: its cleanup runs, its elements go
          /\ sims' = Unref(Forget(Stop(sims, cleanup), 0))
          /\ cleanup' = 0
          /\ rendered' = 0
          /\ pending' = FALSE
          /\ dimensions' = [width |-> 0, height |-> 0]
     ELSE /\ pending' = TRUE
          /\ sims' = Unref(sims)
          /\ UNCHANGED <<cleanup, rendered, dimensions>>
  /\ UNCHANGED <<searchQuery, coreNodeId, fill, viewError>>
  /\ UNCHANGED drawnVars

\* App hands the view another graph (part_003 lines 154, 205, 219 and 579)
setGraphData(g) ==
  /\ viewError = ""
  /\ g # graphData
  /\ GraphDataChanged(g)
  /\ UNCHANGED sanitizerVars
  /\ UNCHANGED appVars

\* part_003 lines 535 and 579
setInput(q) ==
  /\ viewError = ""
  /\ q # searchQuery
  /\ searchQuery' = q
  /\ pending' = (pending \/ Mounted)
  /\ UNCHANGED <<graphData, graphObjects, dimensions, cleanup, rendered, sims,
                 coreNodeId, fill, viewError>>
  /\ UNCHANGED drawnVars
  /\ UNCHANGED sanitizerVars
  /\ UNCHANGED appVars

\* lines 276-285: the ResizeObserver reports a size
setDimensions(size) ==
  /\ viewError = ""
  /\ Mounted
  /\ size # dimensions
  /\ dimensions' = size
  /\ pending' = TRUE
  /\ UNCHANGED <<graphData, graphObjects, searchQuery, cleanup, rendered, sims,
                 coreNodeId, fill, viewError>>
  /\ UNCHANGED drawnVars
  /\ UNCHANGED sanitizerVars
  /\ UNCHANGED appVars

\* lines 287-497: the cleanup of the previous run, then the effect
layoutEffect ==
  /\ viewError = ""
  /\ pending
  /\ Mounted
  /\ LET stopped == Stop(sims, cleanup)
         nodes == GraphNodes(graphData)
         links == GraphLinks(graphData)
         core == IdentifyCore(nodes, searchQuery)
         s == Len(sims) + 1
         thrown ==
           IF ForceLinkThrows(nodes, links) THEN "node not found"
           ELSE IF \E i \in 1..Len(nodes) : LabelThrows(nodes[i])
             THEN "TypeError (reading length)"
           ELSE ""
         simLinks ==
           IF ForceLinkThrows(nodes, links) THEN <<>>
           ELSE SimulationLinks(nodes, links, CopyLinks(graphObjects.links))
     IN  /\ pending' = FALSE
         /\ IF LayoutGuard(graphData, dimensions)
            THEN /\ sims' = stopped
                 /\ cleanup' = 0
                 /\ UNCHANGED <<rendered, coreNodeId, fill, viewError>>
                 /\ UNCHANGED drawnVars
            ELSE IF core.threw
            THEN /\ sims' = Forget(stopped, 0)
                 /\ cleanup' = 0
                 /\ rendered' = 0
                 /\ viewError' = "TypeError"
                 /\ UNCHANGED <<coreNodeId, fill>>
                 /\ UNCHANGED drawnVars
            ELSE /\ Len(sims) < MaxRuns
                 /\ coreNodeId' = core.core
                 /\ sims' =
                      Forget(Append(stopped,
                                    Simulation(CopyNodes(graphObjects.nodes),
                                               simLinks)),
                             IF thrown # "" THEN 0 ELSE s)
                 /\ IF thrown # ""
                    THEN /\ cleanup' = 0
                         /\ rendered' = 0
                         /\ viewError' = thrown
                         /\ UNCHANGED fill
                         /\ UNCHANGED drawnVars
                    ELSE /\ cleanup' = s
                         /\ rendered' = s
                         /\ fill' = NodeFill(nodes, core.core,
                                             ForceLink(nodes, links))
                         /\ nodeText' =
                              [i \in 1..Len(nodes) |-> NodeLabel(nodes[i])]
                         /\ linkText' =
                              [i \in 1..Len(links) |-> LinkLabel(links[i])]
                         /\ forceX' = ForceXTarget(nodes, dimensions.width)
                         /\ linkPath' = [i \in 1..Len(links) |-> Unset]
                         /\ UNCHANGED viewError
  /\ graphObjects' = WriteThrough(graphObjects, sims')
  /\ UNCHANGED <<graphData, searchQuery, dimensions>>
  /\ UNCHANGED sanitizerVars
  /\ UNCHANGED appVars

\* lines 486-489: a pointer goes down on node i of the elements in the svg
dragstarted(i) ==
  /\ viewError = ""
  /\ rendered # 0
  /\ dimensions.width # 0
  /\ dimensions.height # 0
  /\ i \in 1..Len(sims[rendered].nodes)
  /\ i \notin sims[rendered].active
  /\ LET sim == sims[rendered]
         d == sim.nodes[i]
         first == Others(sim.active, i) = {}
     IN  sims' =
           [sims EXCEPT
              ![rendered] =
                [sim EXCEPT
                   !.running = first \/ sim.running,
                   !.alphaTarget = IF first THEN 3 ELSE sim.alphaTarget,
                   !.active = sim.active \cup {i},
                   !.nodes = [sim.nodes EXCEPT ![i] =
                                [d EXCEPT !.fx = d.x, !.fy = d.y]]]]
  /\ graphObjects' = WriteThrough(graphObjects, sims')
  /\ UNCHANGED <<graphData, searchQuery, dimensions, pending, cleanup,
                 rendered, coreNodeId, fill, viewError>>
  /\ UNCHANGED drawnVars
  /\ UNCHANGED sanitizerVars
  /\ UNCHANGED appVars

\* line 490: the pointer moves to p
dragged(s, i, p) ==
  /\ s \in 1..Len(sims)
  /\ i \in sims[s].active
  /\ sims' = [sims EXCEPT ![s].nodes[i].fx = p[1], ![s].nodes[i].fy = p[2]]
  /\ graphObjects' = WriteThrough(graphObjects, sims')
  /\ UNCHANGED <<graphData, searchQuery, dimensions, pending, cleanup,
                 rendered, coreNodeId, fill, viewError>>
  /\ UNCHANGED drawnVars
  /\ UNCHANGED sanitizerVars
  /\ UNCHANGED appVars

\* dragended without the clearing of fx and fy
dragendedKeepsPin(s, i) ==
  /\ s \in 1..Len(sims)
  /\ i \in sims[s].active
  /\ LET sim == sims[s]
         last == Others(sim.active, i) = {}
     IN  sims' =
           [sims EXCEPT
              ![s] =
                [sim EXCEPT
                   !.alphaTarget = IF last THEN 0 ELSE sim.alphaTarget,
                   !.active = sim.active \ {i}]]
  /\ graphObjects' = WriteThrough(graphObjects, sims')
  /\ UNCHANGED <<graphData, searchQuery, dimensions, pending, cleanup,
                 rendered, coreNodeId, fill, viewError>>
  /\ UNCHANGED drawnVars
  /\ UNCHANGED sanitizerVars
  /\ UNCHANGED appVars

\* lines 491-494: the pointer goes up
dragended(s, i) ==
  /\ s \in 1..Len(sims)
  /\ i \in sims[s].active
  /\ LET sim == sims[s]
         last == Others(sim.active, i) = {}
     IN  sims' =
           Forget([sims EXCEPT
                     ![s] =
                       [sim EXCEPT
                          !.alphaTarget =
                            IF last THEN 0 ELSE sim.alphaTarget,
                          !.active = sim.active \ {i},
                          !.nodes =
                            [sim.nodes EXCEPT ![i] =
                               [sim.nodes[i] EXCEPT
                                  !.fx = Null, !.fy = Null]]]],
                  rendered)
  /\ graphObjects' = WriteThrough(graphObjects, sims')
  /\ UNCHANGED <<graphData, searchQuery, dimensions, pending, cleanup,
                 rendered, coreNodeId, fill, viewError>>
  /\ UNCHANGED drawnVars
  /\ UNCHANGED sanitizerVars
  /\ UNCHANGED appVars

\* a step of the timer of simulation s: alpha moves towards alphaTarget, a
\* pinned node goes to its pinned position and the others where the forces
\* take them, the tick handler of lines 474-484 sets the paths of the links
\* (of the elements in the svg), and the timer stops once alpha is below
\* alphaMin
tick(s) ==
  /\ s \in 1..Len(sims)
  /\ sims[s].running
  /\ \E to \in [1..Len(sims[s].nodes) -> TickPoints] :
       LET sim == sims[s]
           alpha == AlphaStep(sim.alpha, sim.alphaTarget)
           moved ==
             [i \in 1..Len(sim.nodes) |->
                LET d == sim.nodes[i]
                IN  [d EXCEPT
                       !.x = IF d.fx.t = "number" THEN d.fx ELSE to[i][1],
                       !.y = IF d.fy.t = "number" THEN d.fy ELSE to[i][2]]]
       IN  /\ sims' =
                Forget([sims EXCEPT
                          ![s] = [sim EXCEPT !.alpha = alpha,
                                             !.nodes = moved,
                                             !.running = alpha > 0]],
                       rendered)
           /\ linkPath' =
                IF s = rendered
                THEN [l \in 1..Len(sim.links) |->
                        LinkArc(moved[sim.links[l].source],
                                moved[sim.links[l].target])]
                ELSE linkPath
  /\ graphObjects' = WriteThrough(graphObjects, sims')
  /\ UNCHANGED <<graphData, searchQuery, dimensions, pending, cleanup,
                 rendered, coreNodeId, fill, viewError>>
  /\ UNCHANGED <<nodeText, linkText, forceX>>
  /\ UNCHANGED sanitizerVars
  /\ UNCHANGED appVars

\* ---------------------------------------------------------------------
\* App: analysis requests, the history list and the cache (part_003)
\* ---------------------------------------------------------------------

\* line 141: the history keeps its 20 most recent items
HistoryLimit == 20

\* the requests followed
MaxRequests == 2

\* lines 133-140: a history item (its timestamp, mode and language are
\* fixed here)
Item(id, query, g) == [id |-> id, query |-> query, data |-> g]

\* Array.prototype.slice(0, n)
Slice(s, n) == SubSeq(s, 1, IF Len(s) < n THEN Len(s) ELSE n)

\* lines 141-143: the list saveToHistory writes, given the history its
\* closure holds
saveToHistory(closed, newItem) == Slice(<<newItem>> \o closed, HistoryLimit)

\* line 148
FilterHistory(h, id) == SelectSeq(h, LAMBDA item : item.id # id)

\* localStorage.getItem on the cache entries: the text, empty when the key
\* is absent (null and "" are both falsy at line 202)
GetItem(cache, key) ==
  IF \E c \in cache : c.key = key
  THEN (CHOOSE c \in cache : c.key = key).value
  ELSE <<>>

\* localStorage.removeItem and localStorage.setItem
RemoveItem(cache, key) == {c \in cache : c.key # key}

SetItem(cache, key, value) ==
  RemoveItem(cache, key) \cup {[key |-> key, value |-> value]}

\* line 103: the provider, mode and language are fixed, the key varies
\* with the input
getCacheKey(input) == input

\* Date.now() when the request completes: requests complete one by one,
\* each later than every saved item
Now == HistoryLimit + clock

\* lines 217-241 after the await, on what App shows and stores: r is what
\* generateKnowledgeGraph settled with, req the request's closure
CompletionClearsGraph(r, req, now, st) ==
  IF r.ok
  THEN LET updated == saveToHistory(req.history, Item(now, req.key, r.v))
       IN  [graphData |-> r.v,
            history |-> updated,
            storage |-> [history |-> updated,
                         cache |-> SetItem(st.storage.cache, req.key,
                                           Stringify(r.v))],
            alerts |-> st.alerts]
  ELSE [st EXCEPT !.alerts = @ + 1, !.graphData = Graph(<<>>, <<>>)]

Completion(r, req, now, st) ==
  IF r.ok
  THEN LET updated == saveToHistory(req.history, Item(now, req.key, r.v))
       IN  [graphData |-> r.v,
            history |-> updated,
            storage |-> [history |-> updated,
                         cache |-> SetItem(st.storage.cache, req.key,
                                           Stringify(r.v))],
            alerts |-> st.alerts]
  ELSE [st EXCEPT !.alerts = @ + 1]

\* the view under the graph App hands it
Show(g) == IF g = graphData THEN UNCHANGED viewVars ELSE GraphDataChanged(g)

\* the graphs of the saved items and of the responses
SavedGraph == Result(Stringify(Graph(<<ViewNodeA>>, <<>>))).v

\* what local storage holds under paperTreeHistory when App mounts: one
\* item, or as many as the history keeps
SavedHistories ==
  {<<Item(1, <<"s">>, SavedGraph)>>,
   [i \in 1..HistoryLimit |->
      Item(HistoryLimit + 1 - i, <<"s">>, SavedGraph)]}

\* the inputs typed
AppInputs == {<<>>, <<"a">>, <<"b">>}

\* the responses: a graph, and a text that is no JSON
AppTexts == {Stringify(Graph(<<ViewNodeB>>, <<>>)), <<"{">>}

\* lines 106-114: the mount effect finds a saved history
loadSavedHistory(saved) ==
  /\ ~historyLoaded
  /\ historyLoaded' = TRUE
  /\ storage' = [storage EXCEPT !.history = saved]
  /\ history' = saved
  /\ UNCHANGED <<loading, requests, alerts, lastAction, clock>>
  /\ UNCHANGED viewVars
  /\ UNCHANGED sanitizerVars

\* lines 190-216, on a click of the button of lines 551-553 (disabled
\* while loading or without input); a key is configured
handleIngest ==
  /\ viewError = ""
  /\ ~loading
  /\ searchQuery # <<>>
  /\ LET cacheKey == getCacheKey(searchQuery)
         cachedData == GetItem(storage.cache, cacheKey)
         json == JSONParse(cachedData)
     IN  IF cachedData # <<>> /\ json.ok
         THEN /\ Show(json.v)
              /\ lastAction' = [kind |-> "submit", data |-> json.v]
              /\ UNCHANGED <<loading, history, storage, requests, alerts,
                             clock, historyLoaded>>
         ELSE /\ clock < MaxRequests
              /\ clock' = clock + 1
              /\ storage' = [storage EXCEPT !.cache = RemoveItem(@, cacheKey)]
              /\ loading' = TRUE
              /\ requests' =
                   Append(requests, [key |-> cacheKey, history |-> history,
                                     state |-> "pending"])
              /\ lastAction' = [kind |-> "submit", data |-> Undefined]
              /\ UNCHANGED <<history, alerts, historyLoaded>>
              /\ UNCHANGED viewVars
  /\ UNCHANGED sanitizerVars

\* the requests awaiting their response
Pending == {i \in 1..Len(requests) : requests[i].state = "pending"}

\* a settled promise; the closure is of no use any more
SettledRequest(req, r) ==
  [key |-> req.key, history |-> <<>>,
   state |-> IF r.ok THEN "fulfilled" ELSE "rejected"]

\* lines 218-241: generateKnowledgeGraph settles with r, and handleIngest
\* goes on past its await
handleIngestResumes(r) ==
  /\ viewError = ""
  /\ Pending # {}
  /\ LET i == CHOOSE p \in Pending : \A q \in Pending : p <= q
         after == Completion(r, requests[i], Now,
                             [graphData |-> graphData, history |-> history,
                              storage |-> storage, alerts |-> alerts])
     IN  /\ Show(after.graphData)
         /\ history' = after.history
         /\ storage' = after.storage
         /\ alerts' = after.alerts
         /\ requests' = [requests EXCEPT ![i] = SettledRequest(@, r)]
  /\ loading' = FALSE
  /\ UNCHANGED <<lastAction, clock, historyLoaded>>
  /\ UNCHANGED sanitizerVars

\* lines 146-151, on the button of line 491 of the k-th item
deleteHistoryItem(k) ==
  /\ k \in 1..Len(history)
  /\ LET updated == FilterHistory(history, history[k].id)
     IN  /\ history' = updated
         /\ storage' = [storage EXCEPT !.history = updated]
  /\ UNCHANGED <<loading, requests, alerts, lastAction, clock, historyLoaded>>
  /\ UNCHANGED viewVars
  /\ UNCHANGED sanitizerVars

\* lines 153-160, on a click on the k-th item (line 483)
loadHistoryItem(k) ==
  /\ viewError = ""
  /\ k \in 1..Len(history)
  /\ Show(history[k].data)
  /\ lastAction' = [kind |-> "load", data |-> history[k].data]
  /\ UNCHANGED <<loading, history, storage, requests, alerts, clock,
                 historyLoaded>>
  /\ UNCHANGED sanitizerVars

\* the items clicked: the most recent one
ClickedItems == {1}

\* requests, history and cache
NextApp ==
  \/ \E saved \in SavedHistories : loadSavedHistory(saved)
  \/ \E q \in AppInputs : setInput(q)
  \/ handleIngest
  \/ \E t \in AppTexts : handleIngestResumes(Result(t))
  \/ handleIngestResumes(Thrown)
  \/ \E k \in ClickedItems : deleteHistoryItem(k)
  \/ \E k \in ClickedItems : loadHistoryItem(k)

SpecApp == Init /\ [][NextApp]_vars

\* the graphs and the queries under which the simulations are followed
LayoutGraphs ==
  {Result(Stringify(p)).v :
     p \in {Graph(<<>>, <<>>), Graph(<<ViewNodeB>>, <<>>)}}

LayoutQueries == {<<>>, <<"B", "E", "T", "A">>}

\* the graph under which two nodes are dragged at once
DragGraphs ==
  {Result(Stringify(p)).v :
     p \in {Graph(<<ViewNodeA, ViewNodeB>>,
                  <<Link(Str(<<"a">>), Str(<<"b">>), Str(Inheritance),
                         Str(<<>>))>>)}}

FullSize == [width |-> SurfaceWidth, height |-> SurfaceHeight]

\* the sizes under which the simulations are followed
LayoutSizes == {[width |-> 0, height |-> 0], FullSize}

\* focus resolution and colours, over every graph and query
NextFocus ==
  \/ \E g \in ViewGraphs : setGraphData(g)
  \/ \E q \in Queries : setInput(q)
  \/ \E size \in FocusSizes : setDimensions(size)
  \/ layoutEffect

SpecFocus == Init /\ [][NextFocus]_vars

\* the simulations over time, with drags and ticks
NextView ==
  \/ \E g \in LayoutGraphs : setGraphData(g)
  \/ \E q \in LayoutQueries : setInput(q)
  \/ \E size \in LayoutSizes : setDimensions(size)
  \/ layoutEffect
  \/ \E i \in 1..2 : dragstarted(i)
  \/ \E s \in 1..MaxRuns, i \in 1..2, p \in Points : dragged(s, i, p)
  \/ \E s \in 1..MaxRuns, i \in 1..2 : dragended(s, i)
  \/ \E s \in 1..MaxRuns : tick(s)

SpecView == Init /\ [][NextView]_vars

\* two linked nodes, dragged one at a time or both at once
NextDrag ==
  \/ \E g \in DragGraphs : setGraphData(g)
  \/ setDimensions(FullSize)
  \/ layoutEffect
  \/ \E i \in 1..2 : dragstarted(i)
  \/ \E s \in 1..MaxRuns, i \in 1..2, p \in DragPoints : dragged(s, i, p)
  \/ \E s \in 1..MaxRuns, i \in 1..2 : dragended(s, i)
  \/ \E s \in 1..MaxRuns : tick(s)

SpecDrag == Init /\ [][NextDrag]_vars

\* graphs, sizes, drags and ticks, under one query
NextSettle ==
  \/ \E g \in LayoutGraphs : setGraphData(g)
  \/ \E size \in LayoutSizes : setDimensions(size)
  \/ layoutEffect
  \/ \E i \in 1..2 : dragstarted(i)
  \/ \E s \in 1..MaxRuns, i \in 1..2, p \in Points : dragged(s, i, p)
  \/ \E s \in 1..MaxRuns, i \in 1..2 : dragended(s, i)
  \/ \E s \in 1..MaxRuns : tick(s)

\* the timer of a running simulation fires on every animation frame
SpecSettle ==
  /\ Init
  /\ [][NextSettle]_vars
  /\ \A s \in 1..MaxRuns : WF_vars(tick(s))

(***************************************************************************)
(* The graph view: properties.                                             *)
(***************************************************************************)
\* the layout effect has run, to its end, on the graph, the query and the
\* size the view now has
Settled ==
  /\ ~pending
  /\ viewError = ""
  /\ Len(GraphNodes(graphData)) > 0
  /\ dimensions.width # 0
  /\ dimensions.height # 0

ViewNodes == GraphNodes(graphData)

ViewLinks == GraphLinks(graphData)

SameIgnoringCase(a, b) ==
  /\ Len(a) = Len(b)
  /\ \A k \in 1..Len(a) : ToLowerChar(a[k]) = ToLowerChar(b[k])

\* the title of node i is a string that holds the query, case apart
TitleHolds(i, query) ==
  LET title == Get(ViewNodes[i], TitleKey)
  IN  /\ IsString(title)
      /\ \E k \in 1..(Len(title.s) - Len(query) + 1) :
           SameIgnoringCase(SubSeq(title.s, k, k + Len(query) - 1), query)

\* C14: with an empty query there is no core; with a query that some title
\* holds, case apart, the core is the first node, in node order, whose
\* title holds it.
C14_FocusResolution ==
  Settled =>
    /\ searchQuery = <<>> => coreNodeId = Null
    /\ \A i \in 1..Len(ViewNodes) :
         (/\ searchQuery # <<>>
          /\ TitleHolds(i, searchQuery)
          /\ \A j \in 1..(i - 1) : ~TitleHolds(j, searchQuery))
           => coreNodeId = Get(ViewNodes[i], IdKey)

\* the query BETA resolved to the second node, titled Beta
C14_Witness ==
  /\ Settled
  /\ searchQuery = <<"B", "E", "T", "A">>
  /\ Len(ViewNodes) = 2
  /\ ~TitleHolds(1, searchQuery)
  /\ coreNodeId = Get(ViewNodes[2], IdKey)

\* C15: with a query that no title holds, the first node is the core (the
\* graph of a view that ran its layout has nodes).
C15_FocusFallback ==
  (/\ Settled
   /\ searchQuery # <<>>
   /\ \A i \in 1..Len(ViewNodes) : ~TitleHolds(i, searchQuery))
    => coreNodeId = Get(ViewNodes[1], IdKey)

\* the links of the graph that join node i and the core
JoinsCore(l, i) ==
  \/ /\ Get(ViewLinks[l], SourceKey) = coreNodeId
     /\ Get(ViewLinks[l], TargetKey) = Get(ViewNodes[i], IdKey)
  \/ /\ Get(ViewLinks[l], TargetKey) = coreNodeId
     /\ Get(ViewLinks[l], SourceKey) = Get(ViewNodes[i], IdKey)

\* C16: with a core, the core is gold, a node joined to the core by an
\* Inheritance, a Conflict or an Inspiration link has the colour of that
\* type, and every other node is neutral.
C16_NeighbourColours ==
  (Settled /\ Truthy(coreNodeId)) =>
    \A i \in 1..Len(ViewNodes) :
      IF Get(ViewNodes[i], IdKey) = coreNodeId THEN fill[i] = Gold
      ELSE /\ \A l \in 1..Len(ViewLinks) :
                (/\ JoinsCore(l, i)
                 /\ \A k \in 1..(l - 1) : ~JoinsCore(k, i))
                  => fill[i] =
                       CASE Get(ViewLinks[l], TypeKey) = Str(Conflict) -> Slate
                         [] Get(ViewLinks[l], TypeKey)
                              \in {Str(Inheritance), Str(Inspiration)} -> Pink
                         [] OTHER -> Neutral
           /\ (\A l \in 1..Len(ViewLinks) : ~JoinsCore(l, i))
                => fill[i] = Neutral

\* C17: resolving the core raises no error.
C17_FocusNeverFails == viewError # "TypeError"

\* a run of the layout effect
EffectStep == pending /\ ~pending' /\ graphData' = graphData

Running == {s \in 1..Len(sims) : sims[s].running}

\* C18 (the view is mounted only for a graph with nodes, part_003 line 575,
\* so the runs without effect are those on a surface of width or height
\* zero): a run of the layout effect on a graph without nodes, or with width
\* or height zero, creates no simulation, starts none, gives no node a
\* position, puts nothing in the svg and raises no error; a run with nodes
\* and a size, if it raises no error, creates a running simulation.
C18_GuardedLayout ==
  [][EffectStep =>
       IF \/ Len(ViewNodes) = 0
          \/ dimensions.width = 0
          \/ dimensions.height = 0
       THEN /\ Len(sims') = Len(sims)
            /\ \A s \in 1..Len(sims) :
                 /\ sims'[s].running => sims[s].running
                 /\ sims'[s].nodes = sims[s].nodes
            /\ rendered' = rendered
            /\ viewError' = viewError
       ELSE viewError' = "" =>
              /\ Len(sims') = Len(sims) + 1
              /\ sims'[Len(sims')].running
              /\ rendered' = Len(sims')]_vars

\* the effect ran on a surface of width zero: the simulation of the run
\* before is stopped and no other exists
C18_Witness ==
  /\ ~pending
  /\ Len(ViewNodes) > 0
  /\ dimensions.width = 0
  /\ Len(sims) = 1
  /\ ~sims[1].running

Pinned(d) == d.fx.t = "number" \/ d.fy.t = "number"

\* C19: a node has a pinned position only while it is dragged: in every
\* state a node that is not being dragged has neither fx nor fy.
C19_PinnedOnlyWhileDragged ==
  \A s \in 1..Len(sims) :
    \A i \in 1..Len(sims[s].nodes) :
      i \notin sims[s].active => ~Pinned(sims[s].nodes[i])

\* a drag has ended: the node's pinned position was cleared, and the
\* simulation has moved the node since
C19_Witness ==
  \E s \in 1..Len(sims) :
    /\ Len(sims[s].nodes) >= 1
    /\ sims[s].active = {}
    /\ sims[s].nodes[1].fx = Null
    /\ sims[s].nodes[1].fy = Null
    /\ sims[s].nodes[1].y = Num(3)

\* C20: at most one simulation is running.
C20_OneSimulation == Cardinality(Running) <= 1

\* the years of two nodes and the targets forceX has for them
YearOf(i) == Get(ViewNodes[i], YearKey).n

\* C23: the horizontal target is order-preserving in year: a node with a
\* later year never has a smaller target than a node with an earlier year.
C23_YearOrderPreserved ==
  Settled =>
    \A i, j \in 1..Len(ViewNodes) :
      YearOf(i) <= YearOf(j) =>
        /\ forceX[i].den = forceX[j].den
        /\ forceX[i].num <= forceX[j].num

\* a text cut to the maximum and followed by the ellipsis, or unchanged
Truncated(t) ==
  IF Len(t) > MaxLabel THEN SubSeq(t, 1, MaxLabel) \o Ellipsis ELSE t

\* C24: the label of every node and of every link is its text, cut to the
\* maximum and followed by the ellipsis when it is longer than the maximum.
C24_LabelsTruncated ==
  Settled =>
    /\ \A i \in 1..Len(ViewNodes) :
         nodeText[i] = Truncated(TextContent(Get(ViewNodes[i], TitleKey)))
    /\ \A l \in 1..Len(ViewLinks) :
         linkText[l] = Truncated(LinkLabel(ViewLinks[l]))

\* the colour getNodeColor has for a neighbour joined by a link of a type
RelationColour(type) ==
  CASE type = Str(Conflict) -> Slate
    [] type \in {Str(Inheritance), Str(Inspiration)} -> Pink
    [] OTHER -> Neutral

SeveralRelations(i) ==
  \E k, l \in 1..Len(ViewLinks) :
    /\ JoinsCore(k, i)
    /\ JoinsCore(l, i)
    /\ Get(ViewLinks[k], TypeKey) # Get(ViewLinks[l], TypeKey)

\* C27: a node that several relations of different types join to the core
\* has the colour of the type of the first of them, in relation order.
C27_FirstRelationWins ==
  (Settled /\ Truthy(coreNodeId)) =>
    \A i \in 1..Len(ViewNodes) :
      SeveralRelations(i) =>
        \A l \in 1..Len(ViewLinks) :
          (JoinsCore(l, i) /\ \A k \in 1..(l - 1) : ~JoinsCore(k, i))
            => fill[i] = RelationColour(Get(ViewLinks[l], TypeKey))

\* C21: the node and link objects of the graph are never given x, y, fx or
\* fy nor object endpoints, every run works on new objects, and every run
\* starts with its nodes on the initial spiral and without pinned position.
C21_FreshCopies ==
  [][/\ graphObjects' = Unmarked(graphData')
     /\ \A s \in 1..Len(sims') :
          /\ \A k \in 1..Len(sims'[s].nodes) : sims'[s].nodes[k].ref = 0
          /\ \A k \in 1..Len(sims'[s].links) : sims'[s].links[k].ref = 0
     /\ Len(sims') > Len(sims) =>
          \A k \in 1..Len(sims'[Len(sims')].nodes) :
            LET d == sims'[Len(sims')].nodes[k]
            IN  /\ d.x = InitialPoint(k)[1]
                /\ d.y = InitialPoint(k)[2]
                /\ d.fx = Undefined
                /\ d.fy = Undefined]_vars

\* a second run exists while a node of the first is still held, pinned,
\* away from where it started
C21_Witness ==
  /\ Len(sims) = 2
  /\ sims[1].active = {1}
  /\ sims[1].nodes[1].fy = Num(3)
  /\ sims[2].nodes[1].fy = Undefined
  /\ graphObjects = Unmarked(graphData)

\* C22: the alpha target of a simulation is raised exactly while at least
\* one drag on its nodes is in progress, overlapping drags included, and
\* the drags create no further simulation.
C22_ReheatedWhileDragged ==
  /\ Len(sims) <= 1
  /\ \A s \in 1..Len(sims) :
       /\ sims[s].alphaTarget \in {0, 3}
       /\ sims[s].alphaTarget = 3 <=> sims[s].active # {}

\* two drags overlapped; the first has ended, the second is still held
C22_Witness ==
  /\ Len(sims) = 1
  /\ sims[1].active = {2}
  /\ sims[1].nodes[1].fx = Null
  /\ sims[1].alphaTarget = 3

\* C28: a simulation on which, from some time on, no drag is in progress
\* stops ticking for good, and no step of the timer stops a simulation on
\* which a drag is held.
C28_Settles ==
  /\ \A s \in 1..MaxRuns :
       (<>[](s <= Len(sims) => sims[s].active = {}))
         => <>[](s <= Len(sims) => ~sims[s].running)
  /\ [][\A s \in 1..Len(sims) :
          (/\ sims[s].running
           /\ sims[s].active # {}
           /\ cleanup' = cleanup
           /\ graphData' = graphData)
            => sims'[s].running]_vars

\* a simulation was reheated by a drag and has come to rest after it
C28_Witness ==
  \E s \in 1..Len(sims) :
    /\ ~sims[s].running
    /\ sims[s].alpha = 0
    /\ sims[s].active = {}
    /\ Len(sims[s].nodes) = 1
    /\ sims[s].nodes[1].fx = Null

HasPosition(d) == d.x.t = "number" /\ d.y.t = "number"

\* C29: after a tick the path of a link is empty exactly when one of its
\* two nodes has no position.
C29_PathUnlessUnplaced ==
  rendered # 0 =>
    \A l \in 1..Len(linkPath) :
      linkPath[l] # Unset =>
        LET sim == sims[rendered]
        IN  linkPath[l] = ""
              <=> ~(/\ HasPosition(sim.nodes[sim.links[l].source])
                    /\ HasPosition(sim.nodes[sim.links[l].target]))

(***************************************************************************)
(* App: properties.                                                        *)
(***************************************************************************)
Rejected == {i \in 1..Len(requests) : requests[i].state = "rejected"}

Fulfilled == {i \in 1..Len(requests) : requests[i].state = "fulfilled"}

\* this step issues a request
Starts == Len(requests') > Len(requests)

\* this step is the rejection, or the fulfilment, of request i
Rejects(i) == i \in Pending /\ requests'[i].state = "rejected"

Fulfils(i) == i \in Pending /\ requests'[i].state = "fulfilled"

\* the step leaves the graph shown, the history (in state and in storage)
\* and the cache as they are
NothingPopulated ==
  /\ graphData' = graphData
  /\ history' = history
  /\ storage' = storage

\* C25: a failed analysis request populates nothing: neither the step that
\* issues a request nor the step in which generateKnowledgeGraph fails (API
\* error or parse error of the sanitizer) changes the graph shown, the
\* history or the cache; the failing step shows one message and sets
\* loading to false, so the messages shown are as many as the failures
C25_FailurePopulatesNothing ==
  /\ [](alerts = Cardinality(Rejected))
  /\ [][/\ Starts => NothingPopulated
        /\ \A i \in 1..Len(requests) :
             Rejects(i) => /\ NothingPopulated
                           /\ alerts' = alerts + 1
                           /\ ~loading']_vars

\* a request failed while a graph was shown, a history kept and a result
\* cached: all three are still there, and loading is over
C25_Witness ==
  /\ Rejected # {}
  /\ Fulfilled # {}
  /\ ~loading
  /\ alerts = 1
  /\ Len(GraphNodes(graphData)) > 0
  /\ Len(history) > 1
  /\ storage.history = history
  /\ storage.cache # {}

\* C26: at most one request is in flight at any time, and when a request
\* completes after the user loaded a history item, the graph shown is that
\* of the item, the user's most recent action
C26_LatestActionShown ==
  /\ [](Cardinality(Pending) <= 1)
  /\ [][\A i \in 1..Len(requests) :
          (Rejects(i) \/ Fulfils(i))
            => (lastAction.kind = "load" => graphData' = lastAction.data)]_vars

\* C30: the history written when a request completes, in state and in
\* local storage, is a new item followed by the items present at that
\* time (so none of those deleted meanwhile), cut to 20
C30_DeletedStaysDeleted ==
  [][\A i \in 1..Len(requests) :
       Fulfils(i)
         => /\ Len(history') > 0
            /\ \A k \in 1..Len(history) : history[k].id # history'[1].id
            /\ history' = Slice(<<history'[1]>> \o history, HistoryLimit)
            /\ storage'.history = history']_vars

====
